---- MODULE Spec2Model ----
(***************************************************************************)
(* Model of the mcp-boost log capture and storage engine:                  *)
(*   src/src/vite/log-writer.ts  (LogWriter, getLogWriter, readLogs)       *)
(*   src/src/vite/plugin.ts      (boostPlugin: collectors, channel bridge) *)
(*                                                                         *)
(* A log file is a sequence of text atoms.  An atom is a newline, a blank, *)
(* a fragment of text that is not JSON (a truncated record), the JSON      *)
(* literal null, or the JSON text of one entry.  Byte sizes are kept per   *)
(* atom, so the size check of the rotation is a check over bytes and the   *)
(* retained tail is a count of lines, as in the code.                      *)
(***************************************************************************)
EXTENDS Integers, Sequences, FiniteSets, TLC

VARIABLES files, clock, hooks, opts, modules, page, store, procs, gitignore,
          written, exceeded, envEvents, last

vars ==
    <<files, clock, hooks, opts, modules, page, store, procs, gitignore,
      written, exceeded, envEvents, last>>

(***************************************************************************)
(* Bounds of the model.                                                    *)
(***************************************************************************)
MaxClock == 5        \* number of write calls in one behaviour
MaxCount == 2        \* largest count passed to read / readLogs
MaxEnvEvents == 1    \* I/O faults and external file modifications
MaxIOClock == 3      \* number of write calls in a behaviour with faults
MaxHookClock == 2    \* number of records written by the collectors
MaxConfigure == 2    \* number of times configureServer runs
MaxQueryClock == 3   \* number of write calls in a behaviour with tool calls
MaxTransforms == 2   \* number of calls of the transform hook
MaxRuns == 2         \* number of times the payload runs in the page
MaxBrowserEvents == 3 \* number of events the page produces

(***************************************************************************)
(* Program constants, scaled down: the code keeps the last 1000 lines and  *)
(* rotates above 5 * 1024 * 1024 bytes.  The ratio is kept: KeepLines + 1  *)
(* short lines fit under the threshold, as 1001 ordinary lines do.         *)
(***************************************************************************)
KeepLines == 2
MaxFileSize == 20

Sources == {"browser", "server"}
Levels == {"log", "info", "warn", "error", "debug"}
Types == {"console", "error", "unhandledrejection"}

\* the JavaScript value undefined, as the value of an object property.  A
\* string of the program is a sequence of text pieces (the empty string is
\* the empty sequence); type and level are single words.
UNDEF == "<undefined>"
UNDEFSTR == <<UNDEF>>

(***************************************************************************)
(* Text atoms                                                              *)
(***************************************************************************)
NL == [k |-> "nl"]
SP == [k |-> "sp"]
JUNK == [k |-> "junk"]
NULLTOK == [k |-> "null"]

\* properties whose value can be undefined in an entry built by the plugin
WordFields == {"type", "level"}
StringFields == {"message", "stack", "filename"}

IsUndefined(e, g) ==
    \/ g \in WordFields /\ e[g] = UNDEF
    \/ g \in StringFields /\ e[g] = UNDEFSTR

\* JSON.stringify(entry): properties whose value is undefined are omitted
JSONstringify(e) ==
    [k |-> "json",
     v |-> [f \in {g \in DOMAIN e : ~IsUndefined(e, g)} |-> e[f]]]

IsWhitespace(a) == a.k \in {"nl", "sp"}

\* bytes of one atom; the JSON text of an entry grows with its properties
ByteLen(a) ==
    CASE a.k = "nl" -> 1
      [] a.k = "sp" -> 1
      [] a.k = "junk" -> 1
      [] a.k = "null" -> 4
      [] a.k = "json" ->
            2 + Cardinality(DOMAIN a.v)
              + (IF "message" \in DOMAIN a.v THEN Len(a.v["message"]) - 1 ELSE 0)

RECURSIVE Size(_)
Size(s) == IF s = <<>> THEN 0 ELSE ByteLen(Head(s)) + Size(Tail(s))

(***************************************************************************)
(* String operations of the JavaScript runtime                             *)
(***************************************************************************)
RECURSIVE TrimStart(_)
TrimStart(s) ==
    IF s # <<>> /\ IsWhitespace(Head(s)) THEN TrimStart(Tail(s)) ELSE s

RECURSIVE TrimEnd(_)
TrimEnd(s) ==
    IF s # <<>> /\ IsWhitespace(s[Len(s)])
    THEN TrimEnd(SubSeq(s, 1, Len(s) - 1)) ELSE s

\* String.prototype.trim
Trim(s) == TrimEnd(TrimStart(s))

\* s.split("\n"): the empty string splits into one empty line
RECURSIVE Split(_)
Split(s) ==
    IF \A i \in 1..Len(s) : s[i] # NL THEN <<s>>
    ELSE LET i == CHOOSE j \in 1..Len(s) :
                     s[j] = NL /\ \A m \in 1..(j - 1) : s[m] # NL
         IN <<SubSeq(s, 1, i - 1)>> \o Split(SubSeq(s, i + 1, Len(s)))

\* a join that leaves the separator out
RECURSIVE JoinNoSeparator(_)
JoinNoSeparator(lines) ==
    IF lines = <<>> THEN <<>> ELSE lines[1] \o JoinNoSeparator(Tail(lines))

\* lines.join("\n")
RECURSIVE Join(_)
Join(lines) ==
    IF lines = <<>> THEN <<>>
    ELSE IF Len(lines) = 1 THEN lines[1]
    ELSE lines[1] \o <<NL>> \o Join(Tail(lines))

\* lines.filter(Boolean): the empty string is the only falsy string
FilterBoolean(lines) == SelectSeq(lines, LAMBDA l : l # <<>>)

\* Array.prototype.slice(start): a negative start counts from the end,
\* and -0 is 0, so slice(-0) is the whole array
Slice(s, start) ==
    LET from == IF start < 0
                THEN (IF Len(s) + start < 0 THEN 0 ELSE Len(s) + start)
                ELSE (IF start > Len(s) THEN Len(s) ELSE start)
    IN SubSeq(s, from + 1, Len(s))

\* a read that forgets to reverse
ReverseForgotten(s) == s

Reverse(s) == [i \in 1..Len(s) |-> s[Len(s) + 1 - i]]

\* a parse that yields an empty object for a text that is not JSON
JSONparseOrEmptyObject(line) ==
    LET t == Trim(line)
    IN IF Len(t) = 1 /\ t[1].k = "json" THEN t[1]
       ELSE [k |-> "json", v |-> [f \in {} |-> 0]]

\* JSON.parse(line) inside the try/catch of the map callback: the parsed
\* value, or null when the text is not JSON.  Blanks around a value are
\* JSON whitespace.
JSONparseOrNull(line) ==
    LET t == Trim(line)
    IN IF Len(t) = 1 /\ t[1].k = "json" THEN t[1] ELSE NULLTOK

(***************************************************************************)
(* The file system: one file per source; a file that was never written     *)
(* does not exist.  A file operation that fails throws; an operation that  *)
(* rewrites a file (flag 'w') truncates it when it opens it, so a failure  *)
(* after the open leaves a prefix of the data.                             *)
(***************************************************************************)
NoFile == [exists |-> FALSE, content |-> <<>>]

NoFault == [kind |-> "none", cut |-> 0]

FaultKinds ==
    {"none", "stat", "read", "rewriteOpen", "rewriteCut", "appendFail", "appendCut"}

\* fs.writeFileSync(path, data)
writeFileSync(f, data, fault) ==
    CASE fault.kind = "rewriteOpen" -> [file |-> f, raised |-> TRUE]
      [] fault.kind = "rewriteCut" ->
            [file |-> [exists |-> TRUE, content |-> SubSeq(data, 1, fault.cut)],
             raised |-> TRUE]
      [] OTHER -> [file |-> [exists |-> TRUE, content |-> data], raised |-> FALSE]

\* fs.appendFileSync(path, data) of one record line <<json, NL>>: a failure
\* after the open leaves part of the JSON text, or the text without its
\* newline
appendFileSync(f, data, fault) ==
    CASE fault.kind = "appendFail" -> [file |-> f, raised |-> TRUE]
      [] fault.kind = "appendCut" ->
            [file |-> [exists |-> TRUE,
                       content |-> f.content \o
                           (IF fault.cut = 0 THEN <<JUNK>> ELSE SubSeq(data, 1, 1))],
             raised |-> TRUE]
      [] OTHER ->
            [file |-> [exists |-> TRUE, content |-> f.content \o data],
             raised |-> FALSE]

(***************************************************************************)
(* LogWriter                                                               *)
(***************************************************************************)
\* a rotation that drops nothing
RotationDataKeepsAll(f) == Join(Split(Trim(f.content))) \o <<NL>>

\* a rotation that keeps the oldest lines: slice(0, 1000)
RotationDataKeepsOldest(f) ==
    LET lines == Split(Trim(f.content))
    IN Join(SubSeq(lines, 1, IF Len(lines) < KeepLines THEN Len(lines) ELSE KeepLines))
          \o <<NL>>

\* the data rotateIfNeeded rewrites the file with
RotationData(f) ==
    LET content == f.content
        lines == Split(Trim(content))
        keepLines == Slice(lines, 0 - KeepLines)
    IN Join(keepLines) \o <<NL>>

\* the size check of rotateIfNeeded finds the file above the threshold
NeedsRotation(f) == f.exists /\ Size(f.content) > MaxFileSize

\* a rotation that starts at the threshold: stats.size >= this.maxFileSize
rotateIfNeededAtThreshold(f, fault) ==
    IF f.exists /\ Size(f.content) >= MaxFileSize
    THEN writeFileSync(f, RotationData(f), fault).file
    ELSE f

\* LogWriter.rotateIfNeeded: every failure is caught and ignored
rotateIfNeeded(f, fault) ==
    IF f.exists
    THEN IF fault.kind = "stat" THEN f
         ELSE IF Size(f.content) > MaxFileSize
              THEN IF fault.kind = "read" THEN f
                   ELSE writeFileSync(f, RotationData(f), fault).file
              ELSE f
    ELSE f

\* LogWriter.write: the file after the call, and whether the call raised
write(f, entry, fault) ==
    LET rotated == rotateIfNeeded(f, fault)
        line == <<JSONstringify(entry), NL>>
    IN appendFileSync(rotated, line, fault)

\* the body shared by LogWriter.read and readLogs, on the text of the file
ParseLastLines(content, count) ==
    LET lines == FilterBoolean(Split(Trim(content)))
        lastLines == Slice(lines, 0 - count)
        parsed == [i \in 1..Len(lastLines) |-> JSONparseOrNull(lastLines[i])]
        entries == SelectSeq(parsed, LAMBDA a : a # NULLTOK)
    IN Reverse([i \in 1..Len(entries) |-> entries[i].v])

\* a read whose readFileSync is outside the try block
readUncaught(f, count, fault) ==
    IF ~f.exists THEN [raised |-> FALSE, value |-> <<>>]
    ELSE IF fault.kind = "read" THEN [raised |-> TRUE, value |-> <<>>]
    ELSE [raised |-> FALSE, value |-> ParseLastLines(f.content, count)]

\* LogWriter.read
read(f, count, fault) ==
    IF ~f.exists THEN [raised |-> FALSE, value |-> <<>>]
    ELSE IF fault.kind = "read" THEN [raised |-> FALSE, value |-> <<>>]
    ELSE [raised |-> FALSE, value |-> ParseLastLines(f.content, count)]

\* a standalone reader that returns the records of the whole file
readLogsWholeFile(f, count, fault) ==
    IF ~f.exists THEN [raised |-> FALSE, value |-> <<>>]
    ELSE IF fault.kind = "read" THEN [raised |-> FALSE, value |-> <<>>]
    ELSE [raised |-> FALSE,
          value |-> ParseLastLines(f.content, Len(f.content) + 1)]

\* readLogs, the standalone reader of the query tools
readLogs(f, count, fault) ==
    IF ~f.exists THEN [raised |-> FALSE, value |-> <<>>]
    ELSE IF fault.kind = "read" THEN [raised |-> FALSE, value |-> <<>>]
    ELSE [raised |-> FALSE, value |-> ParseLastLines(f.content, count)]

\* a clear that leaves the file as it is
clearNothing(f, fault) == [file |-> f, raised |-> FALSE]

\* LogWriter.clear: not guarded by a try/catch
clear(f, fault) ==
    IF f.exists THEN writeFileSync(f, <<>>, fault)
    ELSE [file |-> f, raised |-> FALSE]

(***************************************************************************)
(* The capture injector.  A module id and a piece of code are sequences of *)
(* text pieces; a regular expression of the entry patterns is the text it  *)
(* looks for, followed, when it is anchored at the end, by a dot and one   *)
(* of its extensions.                                                      *)
(***************************************************************************)
VIRTUAL_MODULE_ID == "virtual:mcp-boost-capture"
NUL == "<NUL>"
RESOLVED_VIRTUAL_MODULE_ID == <<NUL, VIRTUAL_MODULE_ID>>

\* import "virtual:mcp-boost-capture";\n
ImportLine == <<"import", VIRTUAL_MODULE_ID, "\n">>

ScriptExts == {"ts", "tsx", "js", "jsx"}

DEFAULT_ENTRY_PATTERNS ==
    { [text |-> <<"app", "/", "client">>, exts |-> ScriptExts],
      [text |-> <<"entry-client">>, exts |-> ScriptExts],
      [text |-> <<"entry", ".", "client">>, exts |-> ScriptExts],
      [text |-> <<"+layout">>, exts |-> {"ts", "js", "svelte"}],
      [text |-> <<".", "nuxt", "/", "entry">>, exts |-> {}],
      [text |-> <<"src", "/", "main">>, exts |-> ScriptExts],
      [text |-> <<"src", "/", "index">>, exts |-> ScriptExts],
      [text |-> <<"src", "/", "App">>, exts |-> ScriptExts] }

\* the text t occurs in s at position i
OccursAt(s, t, i) ==
    /\ i >= 1
    /\ i + Len(t) - 1 <= Len(s)
    /\ \A j \in 1..Len(t) : s[i + j - 1] = t[j]

\* String.prototype.includes
Includes(s, t) == \E i \in 1..(Len(s) + 1) : OccursAt(s, t, i)

\* String.prototype.startsWith
StartsWith(s, t) == OccursAt(s, t, 1)

\* pattern.test(id)
PatternTest(pattern, id) ==
    IF pattern.exts = {} THEN Includes(id, pattern.text)
    ELSE \E ext \in pattern.exts :
            OccursAt(id, pattern.text \o <<".", ext>>, Len(id) - Len(pattern.text) - 1)

\* path.resolve(root, entry)
pathResolve(root, entry) ==
    IF StartsWith(entry, <<"/">>) THEN entry
    ELSE IF StartsWith(entry, <<".", "/">>)
         THEN root \o <<"/">> \o SubSeq(entry, 3, Len(entry))
         ELSE root \o <<"/">> \o entry

\* config.root
Root == <<"/", "p">>

\* configResolved: resolvedEntries
resolvedEntries(o) == {pathResolve(Root, entry) : entry \in o.clientEntries}

\* [...DEFAULT_ENTRY_PATTERNS, ...clientEntryPatterns]
allEntryPatterns(o) == DEFAULT_ENTRY_PATTERNS \cup o.clientEntryPatterns

\* a transform that skips no module
SkipsNothing(id) == FALSE

\* id.includes("node_modules") || id.startsWith("\0")
Skipped(id) == Includes(id, <<"node_modules">>) \/ StartsWith(id, <<NUL>>)

\* transform(code, id) of the plugin with options o: the code it returns,
\* or no result (undefined), which leaves the code as it is
transform(code, id, o) ==
    IF o.disableBrowserCapture THEN [result |-> FALSE, code |-> code]
    ELSE IF Skipped(id) THEN [result |-> FALSE, code |-> code]
    ELSE LET isExplicitEntry == id \in resolvedEntries(o)
             matchesPattern == \E pattern \in allEntryPatterns(o) :
                                   PatternTest(pattern, id)
         IN IF isExplicitEntry \/ matchesPattern
            THEN [result |-> TRUE, code |-> ImportLine \o code]
            ELSE [result |-> FALSE, code |-> code]

\* the modules the build tool loads
ModuleIds ==
    { <<"/", "p", "/", "src", "/", "main", ".", "tsx">>,
      <<"/", "p", "/", "src", "/", "main", ".", "tsx", "?v=1">>,
      <<"/", "p", "/", "my", "src", "/", "App", ".", "jsx">>,
      <<"/", "p", "/", ".", "nuxt", "/", "entry", ".", "mjs">>,
      <<"/", "p", "/", "node_modules", "/", "x", "/", "src", "/", "index", ".", "js">>,
      RESOLVED_VIRTUAL_MODULE_ID,
      <<NUL, "/", "p", "/", "src", "/", "main", ".", "ts">>,
      <<"/", "p", "/", "app", "/", "boot", ".", "ts">>,
      <<"/", "p", "/", "lib", "/", "start", ".", "ts">>,
      <<"/", "p", "/", "src", "/", "util", ".", "ts">> }

\* the options clientEntries and clientEntryPatterns a user passes
ClientEntries == <<".", "/", "app", "/", "boot", ".", "ts">>
ClientEntryPattern == [text |-> <<"start">>, exts |-> {"ts"}]

\* the code the build tool loads for a module
SourceCode == <<"export default 1">>

(***************************************************************************)
(* State.  files is the storage directory; clock is the wall clock read by *)
(* new Date(); last describes the operation that produced the state, with  *)
(* the files before it.  written, exceeded and envEvents are history       *)
(* variables: the records whose append completed since the file was last   *)
(* empty, whether the file was above the threshold since then, and the     *)
(* number of faults and external modifications so far.                     *)
(***************************************************************************)
LastInit ==
    [op |-> "init", src |-> "server", count |-> 0, entry |-> <<>>, ret |-> <<>>,
     raised |-> FALSE, rotated |-> FALSE, wasExceeded |-> FALSE,
     method |-> "", delegated |-> 0,
     fault |-> NoFault, pre |-> [s \in Sources |-> NoFile]]

\* let writerInstance: LogWriter | null = null. An instance is the logDir it
\* was constructed with and the number that tells it from the other instances;
\* created counts the instances constructed, requests the calls of getLogWriter
NoInstance == [id |-> 0, logDir |-> <<>>]

NoStore == [writerInstance |-> NoInstance, created |-> 0, requests |-> 0]

\* the directories that hold a log directory, each with its .gitignore:
\* the text of the file as pieces, "\n" for a line break
GitDirs == { <<"/", "p">>, <<"/", "tmp">> }
NoGitignore == [d \in GitDirs |-> [exists |-> FALSE, content |-> <<>>]]

\* the calls in progress when the file operations of several processes
\* interleave: two processes that call LogWriter.write and one that calls
\* readLogs.  pc is the file operation a call performs next, line the text
\* it appends, content what its rotation read and data what it rewrites the
\* file with; trimmed and raced are history: the records rotations left out
\* of what they read, and the records appended between a rotation's read
\* and the end of its rewrite
Writers == {"w1", "w2"}

IdleCall ==
    [pc |-> "idle", line |-> <<>>, content |-> <<>>, data |-> <<>>, calls |-> 0]

NoProcs ==
    [w1 |-> IdleCall, w2 |-> IdleCall,
     r |-> [pc |-> "idle", count |-> 0, calls |-> 0],
     trimmed |-> {}, raced |-> {}]

\* nothing installed yet: the state of the process before configureServer.
\* console names the implementation of the five global console methods,
\* originalConsole the one boostPlugin() saved when the plugin was created;
\* consolePatched tells that console is the wrapper of the plugin.
NoHooks ==
    [consolePatched |-> FALSE, viteWraps |-> 0, rejHandlers |-> 0,
     wsListeners |-> 0, middlewares |-> 0, configured |-> 0,
     console |-> "native", originalConsole |-> "native"]

\* the implementations of console a plugin can find when it is created: the
\* runtime's own, or a replacement installed earlier by other code
ConsoleImplementations == {"native", "foreign"}

\* the default plugin options
DefaultOpts ==
    [disableBrowserCapture |-> FALSE, disableServerCapture |-> FALSE,
     clientEntries |-> {}, clientEntryPatterns |-> {}]

\* the build before any module went through transform
NoModules == [code |-> [id \in ModuleIds |-> SourceCode], transforms |-> 0]

\* a page in which the payload has not run: inflight holds the messages
\* sent on the channel and not yet received; forwarded and dropped count
\* the events sent and the events produced without a channel
NoPage ==
    [initialized |-> FALSE, hot |-> TRUE, patches |-> 0, errorListeners |-> 0,
     rejectionListeners |-> 0, inflight |-> <<>>, forwarded |-> 0, dropped |-> 0,
     runs |-> 0]

Init ==
    /\ files = [s \in Sources |-> NoFile]
    /\ clock = 0
    /\ hooks = NoHooks
    /\ opts = DefaultOpts
    /\ modules = NoModules
    /\ page = NoPage
    /\ written = [s \in Sources |-> <<>>]
    /\ exceeded = [s \in Sources |-> FALSE]
    /\ envEvents = 0
    /\ store = NoStore
    /\ procs = NoProcs
    /\ gitignore = NoGitignore
    /\ last = LastInit

\* a message long enough for one record line to exceed the threshold alone
BigMessage == [i \in 1..(MaxFileSize - 2) |-> "c"]

\* the records a caller of LogWriter.write passes: a short one, of which
\* KeepLines + 1 lines fit under the threshold, and a big one
StoreEntries(ts) ==
    { [timestamp |-> ts, type |-> "error", message |-> <<"a">>],
      [timestamp |-> ts, type |-> "console", level |-> "info",
       message |-> BigMessage] }

Counts == 0..MaxCount

\* the faults that can strike each operation on file f
WriteFaults(f) ==
    { x \in [kind : FaultKinds, cut : 0..(2 * KeepLines + 1)] :
        \/ x.kind \in {"none", "appendFail"} /\ x.cut = 0
        \/ x.kind = "stat" /\ f.exists /\ x.cut = 0
        \/ x.kind \in {"read", "rewriteOpen"} /\ NeedsRotation(f) /\ x.cut = 0
        \/ x.kind = "rewriteCut" /\ NeedsRotation(f) /\ x.cut < Len(RotationData(f))
        \/ x.kind = "appendCut" /\ x.cut \in {0, 1} }

ReadFaults(f) ==
    { x \in [kind : {"none", "read"}, cut : {0}] : x.kind = "read" => f.exists }

ClearFaults(f) ==
    { x \in [kind : {"none", "rewriteOpen"}, cut : {0}] :
        x.kind = "rewriteOpen" => f.exists }

\* a store that keeps one file for both sources
getLogPathShared(type) == "server"

\* getLogPath(type): path.join(logDir, type + ".log"), the file that files
\* holds under the name of the source
getLogPath(type) == type

\* LogWriter.write(src, e) under fault
Write(src, e, fault) ==
    LET f == files[getLogPath(src)]
        res == write(f, e, fault)
        line == JSONstringify(e).v
    IN /\ clock < MaxClock
       /\ fault \in WriteFaults(f)
       /\ fault.kind # "none" => envEvents < MaxEnvEvents
       /\ files' = [files EXCEPT ![getLogPath(src)] = res.file]
       /\ clock' = clock + 1
       /\ written' = [written EXCEPT
                         ![src] = IF res.raised THEN @ ELSE Append(@, line)]
       /\ exceeded' = [exceeded EXCEPT
                         ![src] = @ \/ Size(res.file.content) > MaxFileSize]
       /\ envEvents' = IF fault.kind = "none" THEN envEvents ELSE envEvents + 1
       /\ last' = [op |-> "write", src |-> src, count |-> 0, entry |-> <<line>>,
                   ret |-> <<>>, raised |-> res.raised,
                   rotated |-> (NeedsRotation(f) /\
                                fault.kind \in {"none", "appendFail", "appendCut"}),
                   wasExceeded |-> exceeded[src], method |-> "", delegated |-> 0,
                   fault |-> fault, pre |-> files]
       /\ UNCHANGED <<gitignore, procs, store, hooks, opts, modules, page>>

\* LogWriter.read(src, count) or readLogs(dir, src, count) under fault
Reading(op, src, count, fault, res) ==
    /\ fault \in ReadFaults(files[src])
    /\ fault.kind # "none" => envEvents < MaxEnvEvents
    /\ envEvents' = IF fault.kind = "none" THEN envEvents ELSE envEvents + 1
    /\ last' = [op |-> op, src |-> src, count |-> count, entry |-> <<>>,
                ret |-> res.value, raised |-> res.raised, rotated |-> FALSE,
                wasExceeded |-> exceeded[src], method |-> "", delegated |-> 0,
                   fault |-> fault, pre |-> files]
    /\ UNCHANGED <<gitignore, procs, store, files, clock, hooks, opts, modules, page, written, exceeded>>

Read(src, count, fault) ==
    Reading("read", src, count, fault, read(files[src], count, fault))

ReadLogs(src, count, fault) ==
    Reading("readLogs", src, count, fault, readLogs(files[src], count, fault))

\* LogWriter.clear(src) under fault
Clear(src, fault) ==
    LET f == files[src]
        res == clear(f, fault)
    IN /\ fault \in ClearFaults(f)
       /\ fault.kind # "none" => envEvents < MaxEnvEvents
       /\ files' = [files EXCEPT ![src] = res.file]
       /\ written' = [written EXCEPT ![src] = IF res.raised THEN @ ELSE <<>>]
       /\ exceeded' = [exceeded EXCEPT ![src] = IF res.raised THEN @ ELSE FALSE]
       /\ envEvents' = IF fault.kind = "none" THEN envEvents ELSE envEvents + 1
       /\ last' = [op |-> "clear", src |-> src, count |-> 0, entry |-> <<>>,
                   ret |-> <<>>, raised |-> res.raised, rotated |-> FALSE,
                   wasExceeded |-> exceeded[src], method |-> "", delegated |-> 0,
                   fault |-> fault, pre |-> files]
       /\ UNCHANGED <<gitignore, procs, store, clock, hooks, opts, modules, page>>

\* text put into a log file from outside the LogWriter (an editor, a process
\* killed in the middle of an append) that read must cope with: an empty
\* line, a blank, a partial line, an invalid line followed by an empty line,
\* a line holding null
ExternalTexts == {<<NL>>, <<SP>>, <<JUNK>>, <<JUNK, NL, NL>>, <<NULLTOK, NL>>}

ExternalAppend(src, a) ==
    /\ envEvents < MaxEnvEvents
    /\ files' = [files EXCEPT
                    ![src] = [exists |-> TRUE, content |-> @.content \o a]]
    /\ exceeded' = [exceeded EXCEPT
                      ![src] = @ \/ Size(files'[src].content) > MaxFileSize]
    /\ envEvents' = envEvents + 1
    /\ last' = [op |-> "external", src |-> src, count |-> 0, entry |-> <<>>,
                ret |-> <<>>, raised |-> FALSE, rotated |-> FALSE,
                wasExceeded |-> exceeded[src], method |-> "", delegated |-> 0,
                fault |-> NoFault, pre |-> files]
    /\ UNCHANGED <<gitignore, procs, store, clock, hooks, opts, modules, page, written>>

(***************************************************************************)
(* Spec: the store used through its operations, every file operation       *)
(* succeeding.  SpecIO: the same operations with file operations that can  *)
(* fail and with files that are also modified from outside.                *)
(***************************************************************************)
WriteOk == \E src \in Sources : \E e \in StoreEntries(clock) : Write(src, e, NoFault)
ReadOk == \E src \in Sources : \E count \in Counts : Read(src, count, NoFault)
ReadLogsOk == \E src \in Sources : \E count \in Counts : ReadLogs(src, count, NoFault)
ClearOk == \E src \in Sources : Clear(src, NoFault)

Next == WriteOk \/ ReadOk \/ ReadLogsOk \/ ClearOk

Spec == Init /\ [][Next]_vars

\* the source whose file the faulty operations and the outside writers touch
IOSources == {"server"}

WriteIO ==
    /\ clock < MaxIOClock
    /\ \E src \in IOSources : \E e \in StoreEntries(clock) :
          \E fault \in WriteFaults(files[src]) : Write(src, e, fault)
ReadFaulty ==
    \E src \in Sources : \E count \in Counts :
        \E fault \in ReadFaults(files[src]) \ {NoFault} : Read(src, count, fault)
ReadLogsFaulty ==
    \E src \in Sources : \E count \in Counts :
        \E fault \in ReadFaults(files[src]) \ {NoFault} : ReadLogs(src, count, fault)
ClearFaulty ==
    \E src \in IOSources :
        \E fault \in ClearFaults(files[src]) \ {NoFault} : Clear(src, fault)
External == \E src \in IOSources : \E a \in ExternalTexts : ExternalAppend(src, a)

ClearIO == \E src \in IOSources : Clear(src, NoFault)

NextIO ==
    \/ WriteIO \/ ReadOk \/ ReadLogsOk \/ ClearIO
    \/ ReadFaulty \/ ReadLogsFaulty \/ ClearFaulty \/ External

SpecIO == Init /\ [][NextIO]_vars

(***************************************************************************)
(* The query tools browser_logs and server_logs.  The bounds of the input  *)
(* schema are scaled down: entries is between 1 and 100 in the code, with  *)
(* the default 20.                                                         *)
(***************************************************************************)
MinEntries == 1
MaxEntries == 4
DefaultEntries == 2

\* a schema that accepts every input
safeParseAcceptsAll(args) ==
    [success |-> TRUE,
     data |-> [entries |-> IF "entries" \in DOMAIN args THEN args.entries
                           ELSE DefaultEntries,
               level |-> IF "level" \in DOMAIN args THEN args.level ELSE UNDEF]]

\* inputSchema.safeParse(args): entries is a number in [1, 100], 20 when
\* it is left out; level is optional and one of the five severities
safeParse(args) ==
    LET entriesOk == "entries" \in DOMAIN args =>
                        (args.entries >= MinEntries /\ args.entries <= MaxEntries)
        levelOk == "level" \in DOMAIN args => args.level \in Levels
    IN IF entriesOk /\ levelOk
       THEN [success |-> TRUE,
             data |-> [entries |-> IF "entries" \in DOMAIN args THEN args.entries
                                   ELSE DefaultEntries,
                       level |-> IF "level" \in DOMAIN args THEN args.level
                                 ELSE UNDEF]]
       ELSE [success |-> FALSE, data |-> [entries |-> 0, level |-> UNDEF]]

\* a filter that keeps every record
FilterLevelForgotten(logs, level) == logs

\* logs.filter((log) => log.level === level)
FilterLevel(logs, level) ==
    SelectSeq(logs, LAMBDA log : "level" \in DOMAIN log /\ log["level"] = level)

\* a handler that filters the whole file by level and truncates afterwards
logsToolFilterFirst(f, args, fault) ==
    LET parsed == safeParse(args)
        entries == parsed.data.entries
        level == parsed.data.level
        res == readLogs(f, Len(f.content), fault)
        found == IF level # UNDEF THEN FilterLevel(res.value, level) ELSE res.value
        logs == SubSeq(found, 1, IF Len(found) < entries THEN Len(found) ELSE entries)
    IN IF ~parsed.success
       THEN [isError |-> TRUE, text |-> "Invalid arguments", logs |-> <<>>,
             readStore |-> FALSE, raised |-> FALSE]
       ELSE IF res.raised
       THEN [isError |-> TRUE, text |-> "Error reading logs", logs |-> <<>>,
             readStore |-> TRUE, raised |-> FALSE]
       ELSE IF Len(logs) = 0
       THEN [isError |-> FALSE, text |-> "No logs found. Make sure:",
             logs |-> <<>>, readStore |-> TRUE, raised |-> FALSE]
       ELSE [isError |-> FALSE, text |-> "Logs (newest first):", logs |-> logs,
             readStore |-> TRUE, raised |-> FALSE]

\* the handler registered by browserLogsTool and serverLogsTool, on the log
\* file f of its source.  text names the message of the reply: the list of
\* validation issues, the guidance of the empty result, the formatted
\* records, or the error caught around readLogs.
logsTool(f, args, fault) ==
    LET parsed == safeParse(args)
        entries == parsed.data.entries
        level == parsed.data.level
        res == readLogs(f, entries, fault)
        logs == IF level # UNDEF THEN FilterLevel(res.value, level) ELSE res.value
    IN IF ~parsed.success
       THEN [isError |-> TRUE, text |-> "Invalid arguments", logs |-> <<>>,
             readStore |-> FALSE, raised |-> FALSE]
       ELSE IF res.raised
       THEN [isError |-> TRUE, text |-> "Error reading logs", logs |-> <<>>,
             readStore |-> TRUE, raised |-> FALSE]
       ELSE IF Len(logs) = 0
       THEN [isError |-> FALSE, text |-> "No logs found. Make sure:",
             logs |-> <<>>, readStore |-> TRUE, raised |-> FALSE]
       ELSE [isError |-> FALSE, text |-> "Logs (newest first):", logs |-> logs,
             readStore |-> TRUE, raised |-> FALSE]

\* the arguments of a tool call
NoArguments == [a \in {} |-> 0]

QueryArgs ==
    { NoArguments, [entries |-> 0], [entries |-> MinEntries],
      [entries |-> MaxEntries], [entries |-> MaxEntries + 1],
      [entries |-> MinEntries, level |-> "error"],
      [entries |-> MaxEntries, level |-> "error"],
      [level |-> "info"], [level |-> "debug"],
      [entries |-> MaxEntries, level |-> "fatal"],
      [entries |-> 0, level |-> "warn"] }

\* the records the collectors store: console records of three levels and a
\* runtime error record, which has no level
QueryEntries(ts) ==
    { [timestamp |-> ts, type |-> "console", level |-> "info", message |-> <<"a">>],
      [timestamp |-> ts, type |-> "console", level |-> "error", message |-> <<"a">>],
      [timestamp |-> ts, type |-> "console", level |-> "warn", message |-> <<"a">>],
      [timestamp |-> ts, type |-> "error", message |-> <<"a">>] }

\* a call of the tool browser_logs (src = "browser") or server_logs
Query(src, args, fault) ==
    LET res == logsTool(files[src], args, fault)
    IN /\ fault \in ReadFaults(files[src])
       /\ fault.kind # "none" => envEvents < MaxEnvEvents
       /\ envEvents' = IF fault.kind = "none" THEN envEvents ELSE envEvents + 1
       /\ last' = [op |-> "query", src |-> src, count |-> safeParse(args).data.entries,
                   entry |-> <<>>, ret |-> res.logs, raised |-> res.raised,
                   rotated |-> FALSE, wasExceeded |-> exceeded[src],
                   method |-> "", delegated |-> 0, fault |-> fault, pre |-> files,
                   args |-> args, reply |-> res]
       /\ UNCHANGED <<gitignore, procs, store, files, clock, hooks, opts, modules, page, written, exceeded>>

(***************************************************************************)
(* SpecQuery: records are stored and cleared while the tools are called.   *)
(* In one behaviour the records go to one of the two sources, so that each *)
(* tool is called on an absent, an empty and a filled store.               *)
(***************************************************************************)
WriteQ ==
    /\ clock < MaxQueryClock
    /\ \E src \in Sources :
          /\ \A s \in Sources \ {src} : ~files[s].exists
          /\ \E e \in QueryEntries(clock) : Write(src, e, NoFault)
QueryOk == \E src \in Sources : \E args \in QueryArgs : Query(src, args, NoFault)
QueryFaulty ==
    \E src \in Sources : \E args \in QueryArgs :
        \E fault \in ReadFaults(files[src]) \ {NoFault} : Query(src, args, fault)

NextQuery == WriteQ \/ ClearOk \/ QueryOk \/ QueryFaulty

SpecQuery == Init /\ [][NextQuery]_vars

(***************************************************************************)
(* SpecTransform: the build tool passes modules through transform, with    *)
(* the code it loaded or with the code an earlier pass returned.           *)
(***************************************************************************)
TransformOpts ==
    [disableBrowserCapture : BOOLEAN, disableServerCapture : {FALSE},
     clientEntries : {{}, {ClientEntries}},
     clientEntryPatterns : {{}, {ClientEntryPattern}}]

InitTransform ==
    /\ files = [s \in Sources |-> NoFile]
    /\ clock = 0
    /\ hooks = NoHooks
    /\ opts \in TransformOpts
    /\ modules = NoModules
    /\ page = NoPage
    /\ written = [s \in Sources |-> <<>>]
    /\ exceeded = [s \in Sources |-> FALSE]
    /\ envEvents = 0
    /\ store = NoStore
    /\ procs = NoProcs
    /\ gitignore = NoGitignore
    /\ last = LastInit

\* the transform hook is called for module id
Transform(id, code) ==
    LET res == transform(code, id, opts)
    IN /\ modules.transforms < MaxTransforms
       /\ modules' = [code |-> [modules.code EXCEPT ![id] = res.code],
                      transforms |-> modules.transforms + 1]
       /\ last' = [op |-> "transform", id |-> id, input |-> code, reply |-> res,
                   pass |-> modules.transforms + 1]
       /\ UNCHANGED <<gitignore, procs, store, files, clock, hooks, opts, page, written, exceeded, envEvents>>

TransformLoaded == \E id \in ModuleIds : Transform(id, SourceCode)
TransformAgain == \E id \in ModuleIds : Transform(id, modules.code[id])

NextTransform == TransformLoaded \/ TransformAgain

SpecTransform == InitTransform /\ [][NextTransform]_vars

(***************************************************************************)
(* The plugin: record normalization                                        *)
(***************************************************************************)
\* the JavaScript values passed to a console method: a string, the empty
\* string, a plain object, an object that refers to itself, an Error, and
\* an object that refers to itself and has no prototype (Object.create(null))
ArgKinds == {"str", "empty", "obj", "circ", "err", "bare"}

\* String(arg) throws a TypeError: the object has neither toString nor valueOf
StringThrows(arg) == arg = "bare"

\* String(arg)
StringOf(arg) ==
    CASE arg = "str" -> <<"a">>
      [] arg = "empty" -> <<>>
      [] arg = "obj" -> <<"[object Object]">>
      [] arg = "circ" -> <<"[object Object]">>
      [] arg = "err" -> <<"Error: e">>

\* JSON.stringify(arg, null, 2) of an object: throws on a circular structure
JSONstringifyValue(arg) ==
    IF arg \in {"circ", "bare"} THEN [throws |-> TRUE, text |-> <<>>]
    ELSE [throws |-> FALSE, text |-> <<"{}">>]

\* the callback of args.map that builds the message raises: String(arg) in
\* its catch block is not guarded
SerializeArgThrows(arg) ==
    /\ arg \in {"obj", "circ", "bare"}
    /\ JSONstringifyValue(arg).throws
    /\ StringThrows(arg)

\* the callback of args.map that builds the message of a console record
\* (no value when it raises)
SerializeArg(arg) ==
    IF arg = "err" THEN <<"Error: e", "at f">>
    ELSE IF arg \in {"obj", "circ", "bare"}
         THEN IF JSONstringifyValue(arg).throws
              THEN (IF StringThrows(arg) THEN <<>> ELSE StringOf(arg))
              ELSE JSONstringifyValue(arg).text
         ELSE StringOf(arg)

\* the callback of args.map that builds args
ArgString(arg) ==
    IF StringThrows(arg) THEN <<"[unserializable]">> ELSE StringOf(arg)

\* building the entry of a console call raises
ConsoleEntryThrows(args) == \E i \in 1..Len(args) : SerializeArgThrows(args[i])

\* a join that puts the separator after every string
RECURSIVE JoinSpaceTrailing(_)
JoinSpaceTrailing(strs) ==
    IF strs = <<>> THEN <<>>
    ELSE strs[1] \o <<" ">> \o JoinSpaceTrailing(Tail(strs))

\* strs.join(" ")
RECURSIVE JoinSpace(_)
JoinSpace(strs) ==
    IF strs = <<>> THEN <<>>
    ELSE IF Len(strs) = 1 THEN strs[1]
    ELSE strs[1] \o <<" ">> \o JoinSpace(Tail(strs))

\* the entry a wrapped server console method writes
ConsoleEntry(method, args) ==
    [type |-> "console", level |-> method,
     message |-> JoinSpace([i \in 1..Len(args) |-> SerializeArg(args[i])]),
     args |-> [i \in 1..Len(args) |-> ArgString(args[i])]]

\* the entry of the wrapper of the build tool's logger.error(msg, options)
ViteErrorEntry(msg, hasStack) ==
    IF hasStack
    THEN [type |-> "error", level |-> "error", message |-> msg, stack |-> <<"at v">>]
    ELSE [type |-> "error", level |-> "error", message |-> msg]

\* rejection reasons: an Error, an Error without message, a string
ReasonKinds == {"error", "errorNoMessage", "string"}

\* the entry of the process-wide unhandledRejection handler
RejectionEntry(reason) ==
    CASE reason = "error" ->
            [type |-> "unhandledrejection", level |-> "error",
             message |-> <<"m">>, stack |-> <<"at r">>]
      [] reason = "errorNoMessage" ->
            [type |-> "unhandledrejection", level |-> "error",
             message |-> <<>>, stack |-> <<"at r">>]
      [] reason = "string" ->
            [type |-> "unhandledrejection", level |-> "error", message |-> <<"r">>]

\* the argument err of the error middleware
ErrKinds == {"null", "error", "errorNoStack"}

\* the entry of the request error middleware
MiddlewareEntry(err) ==
    IF err = "error"
    THEN [type |-> "error", level |-> "error", message |-> <<"m">>,
          stack |-> <<"at s">>]
    ELSE [type |-> "error", level |-> "error", message |-> <<"m">>]

\* payloads received on the channel: a console event, a runtime error event,
\* a payload without type and message, and one with an unknown type, an empty
\* message and fields of its own
Payloads ==
    { [type |-> "console", level |-> "warn", message |-> <<"a">>,
       args |-> << <<"a">> >>],
      [type |-> "error", message |-> <<"e">>, filename |-> <<"f.js">>,
       lineno |-> 3, colno |-> 0, stack |-> <<"at b">>],
      [level |-> "info"],
      [type |-> "bogus", message |-> <<>>, timestamp |-> 99, extra |-> <<"x">>] }

\* data[k] is truthy: neither undefined, nor "", nor 0
Truthy(data, k) ==
    /\ k \in DOMAIN data
    /\ k \in {"lineno", "colno"} => data[k] # 0
    /\ k \in {"level"} => data[k] # ""
    /\ k \in {"stack", "filename"} => data[k] # <<>>

\* a handler that persists the payload as it came
BridgeEntryCopiesAll(data) == data

\* the entry the mcp-boost:log handler builds from a payload
BridgeEntry(data) ==
    [f \in {"type", "message"} \cup
           {k \in {"level", "args", "stack", "filename", "lineno", "colno"} :
               Truthy(data, k)} |->
        IF f \in DOMAIN data THEN data[f]
        ELSE IF f = "type" THEN UNDEF ELSE UNDEFSTR]

\* { timestamp: new Date().toISOString(), ...entry }
WithTimestamp(entry, now) ==
    [f \in DOMAIN entry \cup {"timestamp"} |->
        IF f \in DOMAIN entry THEN entry[f] ELSE now]

\* writeServerLog / writeBrowserLog: not guarded by a try/catch
writeLog(f, entry, now, fault) == write(f, WithTimestamp(entry, now), fault)

\* n handlers installed for the same event each write the entry; a handler
\* that raises ends the dispatch
RECURSIVE writeLogs(_, _, _, _, _)
writeLogs(f, entry, now, n, fault) ==
    IF n = 0 THEN [file |-> f, raised |-> FALSE, done |-> <<>>]
    ELSE LET r == writeLog(f, entry, now, fault)
         IN IF r.raised THEN [file |-> r.file, raised |-> TRUE, done |-> <<>>]
            ELSE LET rest == writeLogs(r.file, entry, now + 1, n - 1, NoFault)
                 IN [file |-> rest.file, raised |-> rest.raised,
                     done |-> <<JSONstringify(WithTimestamp(entry, now)).v>>
                                 \o rest.done]

(***************************************************************************)
(* The plugin: hooks                                                       *)
(***************************************************************************)
\* configureServer(devServer), with the post hook it returns. devServer is
\* the server being created: its channel (devServer.ws) and its middleware
\* stack are its own, so the listener and the middleware of an earlier server
\* are not on them; console, process and the logger outlive a server.
ConfigureServer ==
    /\ hooks.configured < MaxConfigure
    /\ hooks' =
          [configured |-> hooks.configured + 1,
           wsListeners |-> IF opts.disableBrowserCapture THEN 0 ELSE 1,
           consolePatched |-> IF opts.disableServerCapture
                              THEN hooks.consolePatched ELSE TRUE,
           viteWraps |-> IF opts.disableServerCapture THEN hooks.viteWraps
                         ELSE hooks.viteWraps + 1,
           rejHandlers |-> IF opts.disableServerCapture THEN hooks.rejHandlers
                           ELSE hooks.rejHandlers + 1,
           middlewares |-> IF opts.disableServerCapture THEN 0 ELSE 1,
           console |-> IF opts.disableServerCapture THEN hooks.console
                       ELSE "wrapper",
           originalConsole |-> hooks.originalConsole]
    /\ last' = [LastInit EXCEPT !.op = "configureServer", !.pre = files]
    /\ UNCHANGED <<gitignore, procs, store, files, clock, opts, modules, page, written, exceeded, envEvents>>

\* a cleanup that restores nothing
restoreNothing(h) == h

\* Object.assign(console, originalConsole)
restoreConsole(h) ==
    [h EXCEPT !.consolePatched = FALSE, !.console = h.originalConsole]

\* buildEnd()
BuildEnd ==
    /\ hooks' = restoreConsole(hooks)
    /\ last' = [LastInit EXCEPT !.op = "buildEnd", !.pre = files]
    /\ UNCHANGED <<gitignore, procs, store, files, clock, opts, modules, page, written, exceeded, envEvents>>

HookFaults == {NoFault, [kind |-> "appendFail", cut |-> 0]}

\* an event dispatched to n installed handlers that each persist entry to
\* the file of src; calls is the number of calls to the original or next
\* implementation when no handler raises
Persist(op, src, method, entry, n, fault, calls) ==
    LET res == writeLogs(files[src], entry, clock, n, fault)
    IN /\ clock + n <= MaxHookClock
       /\ fault \in HookFaults
       /\ fault.kind # "none" => (n > 0 /\ envEvents < MaxEnvEvents)
       /\ files' = [files EXCEPT ![src] = res.file]
       /\ clock' = clock + n
       /\ written' = [written EXCEPT ![src] = @ \o res.done]
       /\ exceeded' = [exceeded EXCEPT
                         ![src] = @ \/ Size(res.file.content) > MaxFileSize]
       /\ envEvents' = IF fault.kind = "none" THEN envEvents ELSE envEvents + 1
       /\ last' = [op |-> op, src |-> src, count |-> n,
                   entry |-> <<JSONstringify(WithTimestamp(entry, clock)).v>>,
                   ret |-> res.done, raised |-> res.raised,
                   rotated |-> FALSE, wasExceeded |-> exceeded[src],
                   method |-> method,
                   delegated |-> IF res.raised THEN 0 ELSE calls,
                   fault |-> fault, pre |-> files]
       /\ UNCHANGED <<gitignore, procs, store, hooks, opts, modules>>

\* the console calls of the server process: each method, with no argument,
\* one argument and several arguments
ConsoleCalls ==
    { <<"log", <<>> >>, <<"info", <<"str">> >>,
      <<"warn", <<"empty", "obj", "str">> >>,
      <<"error", <<"circ", "err">> >>, <<"debug", <<"str", "bare">> >> }

\* the errors the build tool reports: a message with a stack, an empty message
ViteCalls == { << <<"v">>, TRUE >>, << <<>>, FALSE >> }

\* console[method](...args) in the server process
ConsoleCall(method, args, fault) ==
    IF hooks.consolePatched /\ ConsoleEntryThrows(args)
    THEN /\ fault = NoFault
         /\ last' = [LastInit EXCEPT !.op = "console", !.count = 1,
                                     !.method = method, !.raised = TRUE,
                                     !.wasExceeded = exceeded["server"],
                                     !.pre = files]
         /\ UNCHANGED <<gitignore, procs, store, files, clock, hooks, opts, modules, page, written,
                        exceeded, envEvents>>
    ELSE /\ Persist("console", "server", method, ConsoleEntry(method, args),
                    IF hooks.consolePatched THEN 1 ELSE 0, fault, 1)
         /\ UNCHANGED page

\* devServer.config.logger.error(msg, options)
ViteLoggerError(msg, hasStack, fault) ==
    /\ Persist("viteError", "server", "error", ViteErrorEntry(msg, hasStack),
               hooks.viteWraps, fault, 1)
    /\ UNCHANGED page

\* the process emits unhandledRejection
UnhandledRejection(reason, fault) ==
    /\ hooks.rejHandlers > 0
    /\ Persist("rejection", "server", "", RejectionEntry(reason),
               hooks.rejHandlers, fault, 0)
    /\ UNCHANGED page

\* the error middleware is passed err and calls next(err)
ErrorMiddleware(err, fault) ==
    /\ hooks.middlewares > 0
    /\ Persist("middleware", "server", err, MiddlewareEntry(err),
               IF err = "null" THEN 0 ELSE hooks.middlewares, fault,
               hooks.middlewares)
    /\ UNCHANGED page

\* a payload arrives on the channel event mcp-boost:log
ChannelMessage(data, fault) ==
    /\ hooks.wsListeners > 0
    /\ Persist("channel", "browser", "", BridgeEntry(data),
               hooks.wsListeners, fault, 0)
    /\ UNCHANGED page

(***************************************************************************)
(* SpecPlugin: the dev-server process with the plugin under its default    *)
(* options, and appends that can fail.                                     *)
(***************************************************************************)
InitPlugin ==
    /\ files = [s \in Sources |-> NoFile]
    /\ clock = 0
    /\ \E impl \in ConsoleImplementations :
          hooks = [NoHooks EXCEPT !.console = impl, !.originalConsole = impl]
    /\ opts = DefaultOpts
    /\ modules = NoModules
    /\ page = NoPage
    /\ written = [s \in Sources |-> <<>>]
    /\ exceeded = [s \in Sources |-> FALSE]
    /\ envEvents = 0
    /\ store = NoStore
    /\ procs = NoProcs
    /\ gitignore = NoGitignore
    /\ last = LastInit

Console ==
    \E call \in ConsoleCalls : \E fault \in HookFaults :
        ConsoleCall(call[1], call[2], fault)
ViteError ==
    \E call \in ViteCalls : \E fault \in HookFaults :
        ViteLoggerError(call[1], call[2], fault)
Rejection ==
    \E reason \in ReasonKinds : \E fault \in HookFaults :
        UnhandledRejection(reason, fault)
Middleware ==
    \E err \in ErrKinds : \E fault \in HookFaults : ErrorMiddleware(err, fault)
Channel ==
    \E data \in Payloads : \E fault \in HookFaults : ChannelMessage(data, fault)

NextPlugin ==
    \/ ConfigureServer \/ BuildEnd
    \/ Console \/ ViteError \/ Rejection \/ Middleware \/ Channel

SpecPlugin == InitPlugin /\ [][NextPlugin]_vars

(***************************************************************************)
(* The browser payload (getBrowserCaptureCode), run in a page.  page.hot   *)
(* tells whether import.meta.hot, the live channel, is available; patches  *)
(* is the number of wrappers around each console method.                   *)
(***************************************************************************)
\* a send that does not look at import.meta.hot
sendToServerAlways(p, type, data) ==
    [p EXCEPT !.inflight =
                 Append(@, JSONstringify(
                     [f \in DOMAIN data \cup {"type"} |->
                         IF f = "type" THEN type ELSE data[f]]).v),
              !.forwarded = @ + 1]

\* sendToServer(type, data): the message is sent as JSON, so properties
\* whose value is undefined are left out
sendToServer(p, type, data) ==
    IF p.hot
    THEN [p EXCEPT !.inflight =
                      Append(@, JSONstringify(
                          [f \in DOMAIN data \cup {"type"} |->
                              IF f = "type" THEN type ELSE data[f]]).v),
                   !.forwarded = @ + 1]
    ELSE [p EXCEPT !.dropped = @ + 1]

\* a flag that is never found set
NeverInitialized(p) == FALSE

\* window.__MCP_BOOST_INITIALIZED__
AlreadyInitialized(p) == p.initialized

\* console[method](...args) in the page, through d wrappers: each wrapper
\* builds and sends the event, then calls the method it replaced
RECURSIVE consoleCall(_, _, _, _)
consoleCall(p, d, method, args) ==
    IF d = 0 THEN [page |-> p, raised |-> FALSE, steps |-> <<"original">>]
    ELSE IF ConsoleEntryThrows(args)
    THEN [page |-> p, raised |-> TRUE, steps |-> <<>>]
    ELSE LET e == ConsoleEntry(method, args)
             sent == sendToServer(p, "console",
                        [level |-> e.level, message |-> e.message, args |-> e.args])
             r == consoleCall(sent, d - 1, method, args)
         IN [page |-> r.page, raised |-> r.raised,
             steps |-> <<"sendToServer">> \o r.steps]

\* n listeners of a window event each send the event
RECURSIVE sendToServerTimes(_, _, _, _)
sendToServerTimes(p, type, data, n) ==
    IF n = 0 THEN p
    ELSE sendToServerTimes(sendToServer(p, type, data), type, data, n - 1)

\* the error events of the window: a script error with its origin, and an
\* error of a cross-origin script, which carries no origin and no error
ErrorEvents ==
    { [message |-> <<"e">>, filename |-> <<"f.js">>, lineno |-> 3, colno |-> 7,
       stack |-> <<"at b">>],
      [message |-> <<"Script error.">>, filename |-> <<>>, lineno |-> 0,
       colno |-> 0, stack |-> UNDEFSTR] }

\* the data the unhandledrejection listener sends for a reason
BrowserRejectionData(reason) ==
    CASE reason = "error" -> [message |-> <<"m">>, stack |-> <<"at r">>]
      [] reason = "errorNoMessage" -> [message |-> <<"Error">>, stack |-> <<"at r">>]
      [] reason = "string" -> [message |-> <<"r">>, stack |-> UNDEFSTR]

\* the console calls of the page
BrowserConsoleCalls ==
    { <<"log", <<>> >>, <<"warn", <<"str", "obj">> >>, <<"error", <<"circ">> >>,
      <<"info", <<"bare">> >> }

\* the record of an operation of the page
PageOp(op, method, args, r) ==
    [op |-> op, src |-> "browser", method |-> method, args |-> args,
     raised |-> r.raised,
     steps |-> r.steps, prePage |-> page, pre |-> files]

\* the payload is executed: the module is evaluated, or evaluated again
\* after a hot update
RunPayload ==
    /\ page.runs < MaxRuns
    /\ AlreadyInitialized(page) \/ page.forwarded + page.dropped < MaxBrowserEvents
    /\ IF AlreadyInitialized(page)
       THEN /\ page' = [page EXCEPT !.runs = @ + 1]
            /\ last' = PageOp("payload", "", <<>>, [raised |-> FALSE, steps |-> <<>>])
       ELSE LET installed == [page EXCEPT !.initialized = TRUE,
                                          !.patches = @ + 1,
                                          !.errorListeners = @ + 1,
                                          !.rejectionListeners = @ + 1,
                                          !.runs = @ + 1]
                r == consoleCall(installed, installed.patches, "debug", <<"str">>)
            IN /\ page' = r.page
               /\ last' = PageOp("payload", "debug", <<"str">>, r)
    /\ UNCHANGED <<gitignore, procs, store, files, clock, hooks, opts, modules, written, exceeded, envEvents>>

\* console[method](...args) is called in the page
BrowserConsole(method, args) ==
    LET r == consoleCall(page, page.patches, method, args)
    IN /\ page.forwarded + page.dropped < MaxBrowserEvents
       /\ page' = r.page
       /\ last' = PageOp("browserConsole", method, args, r)
       /\ UNCHANGED <<gitignore, procs, store, files, clock, hooks, opts, modules, written, exceeded,
                      envEvents>>

\* the window dispatches an error event
WindowError(event) ==
    /\ page.errorListeners > 0
    /\ page.forwarded + page.dropped < MaxBrowserEvents
    /\ page' = sendToServerTimes(page, "error", event, page.errorListeners)
    /\ last' = PageOp("windowError", "", <<>>, [raised |-> FALSE, steps |-> <<>>])
    /\ UNCHANGED <<gitignore, procs, store, files, clock, hooks, opts, modules, written, exceeded, envEvents>>

\* the window dispatches an unhandledrejection event
WindowRejection(reason) ==
    /\ page.rejectionListeners > 0
    /\ page.forwarded + page.dropped < MaxBrowserEvents
    /\ page' = sendToServerTimes(page, "unhandledrejection",
                                 BrowserRejectionData(reason),
                                 page.rejectionListeners)
    /\ last' = PageOp("windowRejection", "", <<>>, [raised |-> FALSE, steps |-> <<>>])
    /\ UNCHANGED <<gitignore, procs, store, files, clock, hooks, opts, modules, written, exceeded, envEvents>>

\* the connection of the page to the dev server comes and goes
ChannelUp ==
    /\ ~page.hot
    /\ page' = [page EXCEPT !.hot = TRUE]
    /\ last' = PageOp("channelUp", "", <<>>, [raised |-> FALSE, steps |-> <<>>])
    /\ UNCHANGED <<gitignore, procs, store, files, clock, hooks, opts, modules, written, exceeded, envEvents>>

ChannelDown ==
    /\ page.hot
    /\ page' = [page EXCEPT !.hot = FALSE]
    /\ last' = PageOp("channelDown", "", <<>>, [raised |-> FALSE, steps |-> <<>>])
    /\ UNCHANGED <<gitignore, procs, store, files, clock, hooks, opts, modules, written, exceeded, envEvents>>

\* the dev server receives the oldest message in flight on mcp-boost:log
Deliver ==
    /\ page.inflight # <<>>
    /\ hooks.wsListeners > 0
    /\ Persist("channel", "browser", "", BridgeEntry(Head(page.inflight)),
               hooks.wsListeners, NoFault, 0)
    /\ page' = [page EXCEPT !.inflight = Tail(@)]

(***************************************************************************)
(* SpecBrowser: a page of the application and the dev server it talks to.  *)
(***************************************************************************)
ConfigureOnce == hooks.configured = 0 /\ ConfigureServer
PageConsole == \E call \in BrowserConsoleCalls : BrowserConsole(call[1], call[2])
PageError == \E event \in ErrorEvents : WindowError(event)
PageRejection == \E reason \in ReasonKinds : WindowRejection(reason)

NextBrowser ==
    \/ ConfigureOnce \/ RunPayload \/ PageConsole \/ PageError \/ PageRejection
    \/ ChannelUp \/ ChannelDown \/ Deliver

SpecBrowser == Init /\ [][NextBrowser]_vars

(***************************************************************************)
(* SpecRotation: writes of records of three sizes, with which a file       *)
(* reaches the rotation threshold exactly as well as exceeds it.           *)
(***************************************************************************)
\* the records of StoreEntries and one whose line is one byte longer than
\* the short one's
RotationEntries(ts) ==
    StoreEntries(ts) \cup
    { [timestamp |-> ts, type |-> "console", level |-> "warn",
       message |-> <<"a">>] }

NextRotation ==
    \E src \in Sources : \E e \in RotationEntries(clock) : Write(src, e, NoFault)

SpecRotation == Init /\ [][NextRotation]_vars

(***************************************************************************)
(* Calls whose file operations interleave.  LogWriter.write is existsSync, *)
(* statSync, readFileSync, writeFileSync (which truncates the file when it *)
(* opens it and then writes the data from position 0) and appendFileSync   *)
(* (which writes at the end of the file); readLogs is existsSync and       *)
(* readFileSync.  The calls are synchronous, so the operations of one      *)
(* process never interleave: the calls here belong to different processes  *)
(* that use the same directory.                                            *)
(***************************************************************************)
MaxPrior == 3        \* number of write calls before the interleaved ones
MaxCalls == 1        \* number of interleaved calls of each process

\* the file the interleaved calls work on
RaceSource == "server"

\* the record an interleaved write call is passed
RaceEntry(ts) ==
    [timestamp |-> ts, type |-> "console", level |-> "log", message |-> <<"a">>]

\* the text s without its first n bytes; a record cut by this is junk
RECURSIVE DropBytes(_, _)
DropBytes(s, n) ==
    IF n = 0 \/ s = <<>> THEN s
    ELSE IF ByteLen(Head(s)) <= n THEN DropBytes(Tail(s), n - ByteLen(Head(s)))
    ELSE <<JUNK>> \o Tail(s)

\* a write of data at position 0 of a file holding content: what the data
\* does not cover stays in the file
Overlay(content, data) == data \o DropBytes(content, Size(data))

\* what a file shows of data while a write of it is in progress: some of its
\* lines, the last of them possibly cut in its JSON text or before its newline
Partials(data) ==
    {SubSeq(data, 1, k) : k \in 1..(Len(data) - 1)} \cup
    {SubSeq(data, 1, k) \o <<JUNK>> :
        k \in {j \in 0..(Len(data) - 1) : data[j + 1].k = "json"}}

\* the step of a call that is no operation of the model's history
StepDone(op) == [LastInit EXCEPT !.op = op, !.src = RaceSource]

\* a write call completes before any interleaved call starts
PriorWrite(e) ==
    /\ clock < MaxPrior
    /\ \A w \in Writers : procs[w].calls = 0
    /\ procs.r.calls = 0
    /\ Write(RaceSource, e, NoFault)

\* write(type, entry) is called: const logPath = this.getLogPath(type)
BeginWrite(w) ==
    /\ procs[w].pc = "idle"
    /\ procs[w].calls < MaxCalls
    /\ procs' = [procs EXCEPT
                   ![w] = [pc |-> "exists",
                           line |-> <<JSONstringify(RaceEntry(clock)), NL>>,
                           content |-> <<>>, data |-> <<>>,
                           calls |-> procs[w].calls + 1]]
    /\ clock' = clock + 1
    /\ last' = StepDone("beginWrite")
    /\ UNCHANGED <<gitignore, files, hooks, opts, modules, page, store, written, exceeded,
                   envEvents>>

\* fs.existsSync(logPath)
ExistsStep(w) ==
    /\ procs[w].pc = "exists"
    /\ procs' = [procs EXCEPT
                   ![w].pc = IF files[getLogPath(RaceSource)].exists
                             THEN "stat" ELSE "append"]
    /\ last' = StepDone("existsSync")
    /\ UNCHANGED <<gitignore, files, clock, hooks, opts, modules, page, store, written,
                   exceeded, envEvents>>

\* fs.statSync(logPath); stats.size > this.maxFileSize
StatStep(w) ==
    /\ procs[w].pc = "stat"
    /\ procs' = [procs EXCEPT
                   ![w].pc = IF Size(files[getLogPath(RaceSource)].content)
                                   > MaxFileSize
                             THEN "read" ELSE "append"]
    /\ last' = StepDone("statSync")
    /\ UNCHANGED <<gitignore, files, clock, hooks, opts, modules, page, store, written,
                   exceeded, envEvents>>

\* fs.readFileSync(logPath, "utf-8"), and the lines kept
ReadStep(w) ==
    LET f == files[getLogPath(RaceSource)]
        data == RotationData(f)
    IN /\ procs[w].pc = "read"
       /\ procs' = [procs EXCEPT
                      ![w].pc = "truncate",
                      ![w].content = f.content,
                      ![w].data = data]
       /\ last' = StepDone("readFileSync")
       /\ UNCHANGED <<gitignore, files, clock, hooks, opts, modules, page, store, written,
                      exceeded, envEvents>>

\* fs.writeFileSync(logPath, data) opens the file, which empties it
TruncateStep(w) ==
    /\ procs[w].pc = "truncate"
    /\ files' = [files EXCEPT
                   ![getLogPath(RaceSource)] = [exists |-> TRUE, content |-> <<>>]]
    /\ procs' = [procs EXCEPT ![w].pc = "rewrite"]
    /\ last' = StepDone("open")
    /\ UNCHANGED <<gitignore, clock, hooks, opts, modules, page, store, written, exceeded,
                   envEvents>>

\* the records of seq as a set
RecordSet(content) ==
    {content[i].v : i \in {j \in 1..Len(content) : content[j].k = "json"}}

\* fs.writeFileSync(logPath, data) writes the data
RewriteStep(w) ==
    LET f == files[getLogPath(RaceSource)]
    IN /\ procs[w].pc \in {"rewrite", "rewriteRest"}
       /\ files' = [files EXCEPT
                      ![getLogPath(RaceSource)] =
                          [exists |-> TRUE,
                           content |-> Overlay(f.content, procs[w].data)]]
       /\ procs' = [procs EXCEPT
                      ![w].pc = "append",
                      !.trimmed = @ \cup (RecordSet(procs[w].content) \
                                             RecordSet(procs[w].data))]
       /\ last' = StepDone("writeFileSync")
       /\ UNCHANGED <<gitignore, clock, hooks, opts, modules, page, store, written,
                      exceeded, envEvents>>

\* the data of fs.writeFileSync is in the file in part
RewritePartStep(w) ==
    /\ procs[w].pc = "rewrite"
    /\ files[getLogPath(RaceSource)].content = <<>>
    /\ \E part \in Partials(procs[w].data) :
          files' = [files EXCEPT
                      ![getLogPath(RaceSource)] =
                          [exists |-> TRUE, content |-> part]]
    /\ procs' = [procs EXCEPT ![w].pc = "rewriteRest"]
    /\ last' = StepDone("writeFileSyncPart")
    /\ UNCHANGED <<gitignore, clock, hooks, opts, modules, page, store, written, exceeded,
                   envEvents>>

\* a rotation of another process has read the file and not yet rewritten it
RotationUnderWay(w) ==
    \E v \in Writers \ {w} :
        procs[v].pc \in {"truncate", "rewrite", "rewriteRest"}

\* fs.appendFileSync(logPath, line)
AppendStep(w) ==
    LET f == files[getLogPath(RaceSource)]
        base == IF procs[w].pc = "appendRest"
                THEN SubSeq(f.content, 1, Len(f.content) - 1) ELSE f.content
        record == procs[w].line[1].v
    IN /\ procs[w].pc \in {"append", "appendRest"}
       /\ files' = [files EXCEPT
                      ![getLogPath(RaceSource)] =
                          [exists |-> TRUE, content |-> base \o procs[w].line]]
       /\ written' = [written EXCEPT ![RaceSource] = Append(@, record)]
       /\ procs' = [procs EXCEPT
                      ![w].pc = "idle",
                      !.raced = IF RotationUnderWay(w)
                                THEN @ \cup {record} ELSE @]
       /\ last' = StepDone("appendFileSync")
       /\ UNCHANGED <<gitignore, clock, hooks, opts, modules, page, store, exceeded,
                      envEvents>>

\* the line of fs.appendFileSync is in the file in part: cut in its JSON
\* text, or before its newline
AppendPartStep(w) ==
    LET f == files[getLogPath(RaceSource)]
    IN /\ procs[w].pc = "append"
       /\ \E part \in {<<JUNK>>, <<procs[w].line[1]>>} :
             files' = [files EXCEPT
                         ![getLogPath(RaceSource)] =
                             [exists |-> TRUE, content |-> f.content \o part]]
       /\ procs' = [procs EXCEPT ![w].pc = "appendRest"]
       /\ last' = StepDone("appendFileSyncPart")
       /\ UNCHANGED <<gitignore, clock, hooks, opts, modules, page, store, written,
                      exceeded, envEvents>>

\* readLogs(logDir, type, count) is called: fs.existsSync(logPath)
BeginReadLogs(count) ==
    /\ procs.r.pc = "idle"
    /\ procs.r.calls < MaxCalls
    /\ IF files[getLogPath(RaceSource)].exists
       THEN /\ procs' = [procs EXCEPT !.r = [pc |-> "read", count |-> count,
                                              calls |-> procs.r.calls + 1]]
            /\ last' = StepDone("beginReadLogs")
       ELSE /\ procs' = [procs EXCEPT !.r.calls = @ + 1]
            /\ last' = [StepDone("readLogsDone") EXCEPT !.count = count,
                                                        !.pre = files]
    /\ UNCHANGED <<gitignore, files, clock, hooks, opts, modules, page, store, written,
                   exceeded, envEvents>>

\* readLogs: fs.readFileSync(logPath, "utf-8") and the parsing of what it read
ReadLogsStep ==
    LET res == readLogs(files[getLogPath(RaceSource)], procs.r.count, NoFault)
    IN /\ procs.r.pc = "read"
       /\ procs' = [procs EXCEPT !.r.pc = "idle"]
       /\ last' = [StepDone("readLogsDone") EXCEPT
                     !.count = procs.r.count, !.ret = res.value,
                     !.raised = res.raised, !.pre = files]
       /\ UNCHANGED <<gitignore, files, clock, hooks, opts, modules, page, store, written,
                      exceeded, envEvents>>

WriterSteps(w) ==
    \/ BeginWrite(w) \/ ExistsStep(w) \/ StatStep(w) \/ ReadStep(w)
    \/ TruncateStep(w) \/ RewriteStep(w) \/ AppendStep(w)

(***************************************************************************)
(* SpecReadRace: a query read interleaves with the write calls of one      *)
(* process, whose writes to the file can be seen in part.                  *)
(***************************************************************************)
NextReadRace ==
    \/ \E e \in StoreEntries(clock) : PriorWrite(e)
    \/ WriterSteps("w1")
    \/ RewritePartStep("w1") \/ AppendPartStep("w1")
    \/ \E count \in MinEntries..(KeepLines + 1) : BeginReadLogs(count)
    \/ ReadLogsStep

SpecReadRace == Init /\ [][NextReadRace]_vars

(***************************************************************************)
(* SpecWriteRace: the write calls of two processes interleave; each write  *)
(* to the file is one operation.                                           *)
(***************************************************************************)
NextWriteRace ==
    \/ \E e \in StoreEntries(clock) : PriorWrite(e)
    \/ \E w \in Writers : WriterSteps(w)

SpecWriteRace == Init /\ [][NextWriteRace]_vars

(***************************************************************************)
(* The plugin created with either capture disabled                         *)
(***************************************************************************)
\* getBrowserCaptureCode(), and what load returns in its place
PayloadCode == <<"getBrowserCaptureCode()">>

InertStub == <<"// Browser capture disabled">>

\* a load hook that ignores the option
loadPayload(id, o) ==
    IF id = RESOLVED_VIRTUAL_MODULE_ID
    THEN [result |-> TRUE, code |-> PayloadCode]
    ELSE [result |-> FALSE, code |-> <<>>]

\* load(id) of the plugin with options o: the code it returns, or no result
load(id, o) ==
    IF id = RESOLVED_VIRTUAL_MODULE_ID
    THEN IF o.disableBrowserCapture
         THEN [result |-> TRUE, code |-> InertStub]
         ELSE [result |-> TRUE, code |-> PayloadCode]
    ELSE [result |-> FALSE, code |-> <<>>]

\* the modules the build tool asks the plugin for: the virtual module, an
\* entry module and a module that is no entry
OptionModuleIds ==
    { RESOLVED_VIRTUAL_MODULE_ID,
      <<"/", "p", "/", "src", "/", "main", ".", "tsx">>,
      <<"/", "p", "/", "src", "/", "util", ".", "ts">> }

\* the load hook is called for module id
Load(id) ==
    /\ last' = [op |-> "load", id |-> id, reply |-> load(id, opts)]
    /\ UNCHANGED <<gitignore, procs, files, clock, hooks, opts, modules, page, store, written,
                   exceeded, envEvents>>

\* a payload arrives on the channel, whether or not a listener is installed
ChannelMessageAny(data) ==
    /\ Persist("channel", "browser", "", BridgeEntry(data),
               hooks.wsListeners, NoFault, 0)
    /\ UNCHANGED page

\* the process emits unhandledRejection, whether or not the plugin listens
UnhandledRejectionAny(reason) ==
    /\ Persist("rejection", "server", "", RejectionEntry(reason),
               hooks.rejHandlers, NoFault, 0)
    /\ UNCHANGED page

\* a request error, whether or not the plugin's middleware is in the stack
RequestError(err) ==
    /\ Persist("middleware", "server", err, MiddlewareEntry(err),
               IF err = "null" THEN 0 ELSE hooks.middlewares, NoFault, 1)
    /\ UNCHANGED page

(***************************************************************************)
(* SpecOptions: the plugin created with each combination of the options    *)
(* disableBrowserCapture and disableServerCapture.                         *)
(***************************************************************************)
OptionSets ==
    [disableBrowserCapture : BOOLEAN, disableServerCapture : BOOLEAN,
     clientEntries : {{}}, clientEntryPatterns : {{}}]

InitOptions ==
    /\ files = [s \in Sources |-> NoFile]
    /\ clock = 0
    /\ hooks = NoHooks
    /\ opts \in OptionSets
    /\ modules = NoModules
    /\ page = NoPage
    /\ written = [s \in Sources |-> <<>>]
    /\ exceeded = [s \in Sources |-> FALSE]
    /\ envEvents = 0
    /\ store = NoStore
    /\ procs = NoProcs
    /\ gitignore = NoGitignore
    /\ last = LastInit

OptLoad == \E id \in OptionModuleIds : Load(id)
OptTransform == \E id \in OptionModuleIds : Transform(id, SourceCode)
OptConsole == ConsoleCall("warn", <<"str">>, NoFault)
OptViteError == ViteLoggerError(<<"v">>, TRUE, NoFault)
OptRejection == UnhandledRejectionAny("error")
OptRequestError == \E err \in {"null", "error"} : RequestError(err)
OptChannel == \E data \in Payloads : ChannelMessageAny(data)

NextOptions ==
    \/ ConfigureServer \/ BuildEnd \/ OptLoad \/ OptTransform
    \/ OptConsole \/ OptViteError \/ OptRejection \/ OptRequestError
    \/ OptChannel

SpecOptions == InitOptions /\ [][NextOptions]_vars

(***************************************************************************)
(* The store singleton                                                     *)
(***************************************************************************)
MaxRequests == 6

\* the logDir option of the plugin, as the configurations spell it
LogDirOptions ==
    { <<".mcp-boost">>, <<".", "/", ".mcp-boost">>, <<"logs">>,
      <<"/", "p", "/", "logs">>, <<"/", "tmp", "/", "boost">> }

\* path.dirname and path.basename of an absolute path
pathDirname(p) == IF Len(p) <= 2 THEN <<"/">> ELSE SubSeq(p, 1, Len(p) - 2)
pathBasename(p) == p[Len(p)]

\* the comment line written above the entry
BoostHeader == <<"# MCP Boost ", "logs">>

GitFault == [kind |-> "gitignore", cut |-> 0]

\* an ensureGitignore that looks for the entry line, not for the name
\* anywhere in the text
ensureGitignoreByLine(g, logDir, fault) ==
    LET parentDir == pathDirname(logDir)
        logDirName == pathBasename(logDir)
        f == g[parentDir]
        entry == <<logDirName, "/">>
        present == \E i \in 1..Len(f.content) :
                      /\ OccursAt(f.content, entry, i)
                      /\ (i = 1 \/ f.content[i - 1] = "\n")
                      /\ (i + 2 > Len(f.content) \/ f.content[i + 2] = "\n")
    IN IF fault.kind = "gitignore" THEN g
       ELSE IF f.exists
       THEN IF ~present
            THEN [g EXCEPT ![parentDir].content =
                     @ \o <<"\n">> \o BoostHeader \o <<"\n">> \o entry \o <<"\n">>]
            ELSE g
       ELSE [g EXCEPT ![parentDir] =
                [exists |-> TRUE,
                 content |-> BoostHeader \o <<"\n">> \o entry \o <<"\n">>]]

\* LogWriter.ensureGitignore, called by the constructor through
\* ensureLogDir: the .gitignore files after the call; a failing file
\* operation is caught and leaves them as they are
ensureGitignore(g, logDir, fault) ==
    LET parentDir == pathDirname(logDir)
        logDirName == pathBasename(logDir)
        f == g[parentDir]
    IN IF fault.kind = "gitignore" THEN g
       ELSE IF f.exists
       THEN IF ~Includes(f.content, <<logDirName>>)
            THEN [g EXCEPT ![parentDir].content =
                     @ \o <<"\n">> \o BoostHeader \o <<"\n", logDirName, "/", "\n">>]
            ELSE g
       ELSE [g EXCEPT ![parentDir] =
                [exists |-> TRUE,
                 content |-> BoostHeader \o <<"\n", logDirName, "/", "\n">>]]

\* new LogWriter({ logDir }), in a process that has constructed st.created
\* instances
NewLogWriter(st, logDir) == [id |-> st.created + 1, logDir |-> logDir]

\* a getLogWriter that constructs an instance at every call
getLogWriterAlwaysNew(st, logDir) ==
    [st EXCEPT !.writerInstance = NewLogWriter(st, logDir),
               !.created = @ + 1]

\* getLogWriter(logDir): the module state after the call; the instance
\* returned is its writerInstance
getLogWriter(st, logDir) ==
    IF st.writerInstance = NoInstance \/ st.writerInstance.logDir # logDir
    THEN [st EXCEPT !.writerInstance = NewLogWriter(st, logDir),
                    !.created = @ + 1]
    ELSE st

\* configResolved(config) of a plugin created with the option logDir:
\* writer = getLogWriter(path.resolve(config.root, logDir))
ConfigResolved(logDir) ==
    LET resolvedLogDir == pathResolve(Root, logDir)
        after == getLogWriter(store, resolvedLogDir)
    IN /\ store.requests < MaxRequests
       /\ store' = [after EXCEPT !.requests = @ + 1]
       /\ gitignore' = IF after.created = store.created THEN gitignore
                       ELSE ensureGitignore(gitignore, resolvedLogDir, NoFault)
       /\ last' = [op |-> "getLogWriter", src |-> "server", count |-> 0,
                   entry |-> <<>>, ret |-> <<>>, raised |-> FALSE,
                   rotated |-> FALSE, wasExceeded |-> FALSE, method |-> "",
                   delegated |-> 0, fault |-> NoFault, pre |-> files,
                   logDir |-> resolvedLogDir, prev |-> store.writerInstance,
                   returned |-> after.writerInstance]
       /\ UNCHANGED <<procs, files, clock, hooks, opts, modules, page, written,
                      exceeded, envEvents>>

(***************************************************************************)
(* SpecWriter: plugins created with several logDir options resolve their   *)
(* configuration in one process.                                           *)
(***************************************************************************)
NextWriter == \E logDir \in LogDirOptions : ConfigResolved(logDir)

SpecWriter == Init /\ [][NextWriter]_vars

(***************************************************************************)
(* SpecGitignore: stores are constructed for two directories of one        *)
(* project whose .gitignore is absent, empty, or holds lines of its own.   *)
(***************************************************************************)
MaxCreations == 3    \* number of LogWriter instances constructed

\* the log directories, both in the project root
StoreDirs == { <<"/", "p", "/", ".mcp-boost">>, <<"/", "p", "/", "logs">> }

\* the project's .gitignore before the first store is constructed: absent,
\* empty, other entries with and without a final line break, the entry
\* already there, a comment that mentions the directory, an entry for a
\* directory whose name ends with the name of the log directory
GitignoreStates ==
    { [exists |-> FALSE, content |-> <<>>],
      [exists |-> TRUE, content |-> <<>>],
      [exists |-> TRUE, content |-> <<"node_modules", "\n">>],
      [exists |-> TRUE, content |-> <<"node_modules">>],
      [exists |-> TRUE, content |-> <<".mcp-boost", "/", "\n">>],
      [exists |-> TRUE,
       content |-> <<"# see ", ".mcp-boost", " docs", "\n">>],
      [exists |-> TRUE, content |-> <<"cata", "logs", "/", "\n">>] }

InitGitignore ==
    /\ files = [s \in Sources |-> NoFile]
    /\ clock = 0
    /\ hooks = NoHooks
    /\ opts = DefaultOpts
    /\ modules = NoModules
    /\ page = NoPage
    /\ written = [s \in Sources |-> <<>>]
    /\ exceeded = [s \in Sources |-> FALSE]
    /\ envEvents = 0
    /\ store = NoStore
    /\ procs = NoProcs
    /\ \E g \in GitignoreStates :
          gitignore = [NoGitignore EXCEPT ![Root] = g]
    /\ last = [op |-> "init", src |-> "server", count |-> 0, entry |-> <<>>,
               ret |-> <<>>, raised |-> FALSE, rotated |-> FALSE,
               wasExceeded |-> FALSE, method |-> "", delegated |-> 0,
               fault |-> NoFault, pre |-> [s \in Sources |-> NoFile],
               logDir |-> <<>>, preGit |-> NoGitignore, made |-> {}]

\* new LogWriter({ logDir }): the constructor calls ensureLogDir, which
\* calls ensureGitignore; made is the set of directories a store was
\* constructed for before, without a failing file operation
Construct(logDir, fault) ==
    /\ store.created < MaxCreations
    /\ fault \in {NoFault, GitFault}
    /\ fault.kind # "none" => envEvents < MaxEnvEvents
    /\ envEvents' = IF fault.kind = "none" THEN envEvents ELSE envEvents + 1
    /\ store' = [store EXCEPT !.created = @ + 1]
    /\ gitignore' = ensureGitignore(gitignore, logDir, fault)
    /\ last' = [op |-> "construct", src |-> "server", count |-> 0,
                entry |-> <<>>, ret |-> <<>>, raised |-> FALSE,
                rotated |-> FALSE, wasExceeded |-> FALSE, method |-> "",
                delegated |-> 0, fault |-> fault, pre |-> files,
                logDir |-> logDir, preGit |-> gitignore,
                made |-> IF last.fault = NoFault /\ last.op = "construct"
                         THEN last.made \cup {last.logDir} ELSE last.made]
    /\ UNCHANGED <<files, clock, hooks, opts, modules, page, procs, written,
                   exceeded>>

NextGitignore ==
    \E logDir \in StoreDirs : \E fault \in {NoFault, GitFault} :
        Construct(logDir, fault)

SpecGitignore == InitGitignore /\ [][NextGitignore]_vars

(***************************************************************************)
(* The query server: createServer loads mcp-boost.json and registers the   *)
(* enabled tools of the registry.                                          *)
(***************************************************************************)
\* toolRegistry
toolRegistry ==
    [id \in {"browser-logs", "server-logs"} |->
        IF id = "browser-logs" THEN "browserLogsTool" ELSE "serverLogsTool"]

\* getAllToolIds(): Object.keys(toolRegistry), in the order of the literal
getAllToolIds == <<"browser-logs", "server-logs">>

\* getToolById(id)
getToolById(id) ==
    IF id \in DOMAIN toolRegistry THEN toolRegistry[id] ELSE "undefined"

\* the ids a config file can name: those of the registry and one more
ConfigIds == {"browser-logs", "server-logs", "routes"}

\* the value of one key of tools: an object with enabled true or false, an
\* object without enabled, null
NullConfig == [null |-> TRUE]
ToolConfigs ==
    {[enabled |-> TRUE], [enabled |-> FALSE], [maxEntries |-> 5], NullConfig}

\* the states of mcp-boost.json: absent, not JSON, JSON without a tools
\* object, a tools object over any ids
ConfigFiles ==
    { [kind |-> "absent"], [kind |-> "invalid"], [kind |-> "noTools"] } \cup
    { [kind |-> "config", tools |-> t] :
        t \in UNION { [S -> ToolConfigs] : S \in SUBSET ConfigIds } }

\* loadConfig(projectRoot)
loadConfig(file) ==
    CASE file.kind = "absent" -> [raised |-> FALSE, config |-> NullConfig]
      [] file.kind \in {"invalid", "noTools"} ->
            [raised |-> TRUE, config |-> NullConfig]
      [] OTHER -> [raised |-> FALSE, config |-> [tools |-> file.tools]]

\* config.tools[toolId]?.enabled
toolConfigEnabled(config, toolId) ==
    /\ toolId \in DOMAIN config.tools
    /\ "enabled" \in DOMAIN config.tools[toolId]
    /\ config.tools[toolId].enabled

\* the loop of createServer over the ids: the tools registered, in order
RECURSIVE registerTools(_, _)
registerTools(ids, config) ==
    IF ids = <<>> THEN <<>>
    ELSE LET toolId == Head(ids)
             here == IF toolConfigEnabled(config, toolId) /\
                        getToolById(toolId) # "undefined"
                     THEN <<toolId>> ELSE <<>>
         IN here \o registerTools(Tail(ids), config)

\* a createServer that registers every tool of the registry
createServerRegistersAll(file) ==
    LET loaded == loadConfig(file)
    IN IF loaded.raised
       THEN [raised |-> TRUE, exited |-> FALSE, registered |-> <<>>,
             warned |-> FALSE]
       ELSE IF loaded.config = NullConfig
       THEN [raised |-> FALSE, exited |-> TRUE, registered |-> <<>>,
             warned |-> FALSE]
       ELSE [raised |-> FALSE, exited |-> FALSE,
             registered |-> getAllToolIds, warned |-> FALSE]

\* createServer({ appPath }) with the config file of appPath: whether
\* loadConfig raised, whether the process exited, the tools registered on
\* the new server, whether the warning was printed
createServer(file) ==
    LET loaded == loadConfig(file)
    IN IF loaded.raised
       THEN [raised |-> TRUE, exited |-> FALSE, registered |-> <<>>,
             warned |-> FALSE]
       ELSE IF loaded.config = NullConfig
       THEN [raised |-> FALSE, exited |-> TRUE, registered |-> <<>>,
             warned |-> FALSE]
       ELSE LET registered == registerTools(getAllToolIds, loaded.config)
            IN [raised |-> FALSE, exited |-> FALSE,
                registered |-> registered, warned |-> Len(registered) = 0]

CreateServer(file) ==
    LET res == createServer(file)
    IN /\ last' = [op |-> "createServer", src |-> "server", count |-> 0,
                   entry |-> <<>>, ret |-> res.registered,
                   raised |-> res.raised, rotated |-> FALSE,
                   wasExceeded |-> FALSE, method |-> "", delegated |-> 0,
                   fault |-> NoFault, pre |-> files, file |-> file,
                   exited |-> res.exited, warned |-> res.warned]
       /\ UNCHANGED <<gitignore, procs, store, files, clock, hooks, opts,
                      modules, page, written, exceeded, envEvents>>

NextServer == \E file \in ConfigFiles : CreateServer(file)

SpecServer == Init /\ [][NextServer]_vars

(***************************************************************************)
(* Definitions used to state the properties                                *)
(***************************************************************************)
\* the text of a file holding exactly the records rs, one per line
RECURSIVE FileText(_)
FileText(rs) ==
    IF rs = <<>> THEN <<>>
    ELSE <<[k |-> "json", v |-> Head(rs)], NL>> \o FileText(Tail(rs))

\* the last n elements of s
LastN(s, n) == SubSeq(s, (IF n > Len(s) THEN 0 ELSE Len(s) - n) + 1, Len(s))

\* the number of newline-terminated lines of a text
LineCount(content) == Cardinality({i \in 1..Len(content) : content[i] = NL})

Min(a, b) == IF a < b THEN a ELSE b

\* C1: starting from an empty file, after writes r1..rn during which the
\* file never exceeded the rotation threshold and no clear occurred,
\* read(source, count) with count >= n returns rn, ..., r1.
C1_ReadReversesWrites ==
    (/\ last.op = "read"
     /\ ~exceeded[last.src]
     /\ last.count >= Len(written[last.src]))
    => last.ret = [i \in 1..Len(written[last.src]) |->
                      written[last.src][Len(written[last.src]) + 1 - i]]

C1_Witness ==
    /\ last.op = "read"
    /\ ~exceeded[last.src]
    /\ Len(written[last.src]) = 2
    /\ last.count >= 2
    /\ last.ret = <<written[last.src][2], written[last.src][1]>>

\* C2: for every count >= 0 and every file content, read(source, count) and
\* readLogs(dir, source, count) return at most count records.
C2_AtMostCount ==
    last.op \in {"read", "readLogs"} => Len(last.ret) <= last.count

\* C3: read(source, count) never raises; it returns the empty sequence when
\* the file does not exist or when reading it fails, and it leaves the
\* stored files unchanged.
C3_ReadNeverRaises ==
    last.op = "read" =>
        /\ ~last.raised
        /\ (~last.pre[last.src].exists \/ last.fault.kind = "read")
              => last.ret = <<>>
        /\ files = last.pre

C3_Witness ==
    /\ last.op = "read"
    /\ last.fault.kind = "read"
    /\ last.count >= 1
    /\ \E i \in 1..Len(files[last.src].content) :
          files[last.src].content[i].k = "json"
    /\ last.ret = <<>>
    /\ ~last.raised

\* the trailing n elements of s; none when n = 0
Trailing(s, n) == [i \in 1..Min(n, Len(s)) |-> s[Len(s) - Min(n, Len(s)) + i]]

\* a line holds one record: one JSON object, blanks around it allowed
IsRecordLine(line) ==
    \E i \in 1..Len(line) :
        /\ line[i].k = "json"
        /\ \A j \in 1..Len(line) : j # i => line[j].k = "sp"

RecordOfLine(line) == (CHOOSE a \in {line[i] : i \in 1..Len(line)} : a.k = "json").v

\* the records on the trailing count non-empty lines of a text, newest first
ExpectedRead(content, count) ==
    LET window == Trailing(FilterBoolean(Split(Trim(content))), count)
        good == SelectSeq(window, IsRecordLine)
    IN [i \in 1..Len(good) |-> RecordOfLine(good[Len(good) + 1 - i])]

\* C4: for any file content mixing valid lines, invalid lines and empty
\* lines, read(source, count) returns exactly the parsable records among
\* the trailing count non-empty lines, in reverse file order.
C4_SkipsInvalidLines ==
    (last.op = "read" /\ last.fault.kind = "none")
    => last.ret = ExpectedRead(last.pre[last.src].content, last.count)

\* the same for the counts the query tools accept (count >= 1)
C4_PositiveCount ==
    (last.op = "read" /\ last.fault.kind = "none" /\ last.count >= 1)
    => last.ret = ExpectedRead(last.pre[last.src].content, last.count)

C4_PositiveCountWitness ==
    /\ last.op = "read" /\ last.fault.kind = "none" /\ last.count = 2
    /\ Len(last.ret) = 1
    /\ \E i \in 1..Len(files[last.src].content) : files[last.src].content[i] = JUNK
    /\ Len(FilterBoolean(Split(Trim(files[last.src].content)))) >= 3

\* C5: once a source's file has exceeded the rotation threshold, after every
\* subsequent completed write the file holds at most the 1000 retained
\* lines plus the most recent append.
C5_NeverMoreThanKeepPlusOne ==
    (last.op = "write" /\ ~last.raised /\ last.wasExceeded)
    => LineCount(files[last.src].content) <= KeepLines + 1

\* C5 as amended: after a completed write that found the file above the
\* threshold and rotated it, the file holds at most KeepLines + 1 lines.
C5_AfterRotationAtMostKeepPlusOne ==
    (last.op = "write" /\ ~last.raised /\ last.rotated)
    => LineCount(files[last.src].content) <= KeepLines + 1

C5_Witness ==
    /\ last.op = "write" /\ ~last.raised /\ last.rotated
    /\ LineCount(last.pre[last.src].content) = KeepLines + 2
    /\ LineCount(files[last.src].content) = KeepLines + 1

\* C6: immediately after a write that rotates a file holding k lines, the
\* file holds the min(k, 1000) most recently written earlier lines followed
\* by the new record, in write order, and they are read back.
C6_RotationKeepsNewest ==
    (last.op = "write" /\ last.rotated /\ ~last.raised)
    => LET src == last.src
           k == LineCount(last.pre[src].content)
           m == Min(k, KeepLines)
           newest == LastN(written[src], m + 1)
       IN /\ Len(written[src]) >= m + 1
          /\ newest[m + 1] = last.entry[1]
          /\ files[src].content = FileText(newest)
          /\ read(files[src], m + 1, NoFault).value =
                [i \in 1..(m + 1) |-> newest[m + 2 - i]]

C6_Witness ==
    /\ last.op = "write" /\ last.rotated /\ ~last.raised
    /\ LineCount(last.pre[last.src].content) > KeepLines
    /\ LineCount(files[last.src].content) = KeepLines + 1

\* the case k < 1000: a file of fewer lines than are kept, above the threshold
C6_WitnessFewLines ==
    /\ last.op = "write" /\ last.rotated /\ ~last.raised
    /\ LineCount(last.pre[last.src].content) < KeepLines
    /\ LineCount(files[last.src].content) = 2

\* C8: if the rotation step of write (size check, read, rewrite) fails with
\* an I/O error, write does not raise because of it, the existing content is
\* kept and the new record is appended as the last line.
C8_FailedRotationKeepsContent ==
    (last.op = "write" /\
     last.fault.kind \in {"stat", "read", "rewriteOpen", "rewriteCut"})
    => /\ ~last.raised
       /\ files[last.src].content =
             last.pre[last.src].content \o
                <<[k |-> "json", v |-> last.entry[1]], NL>>

\* C10: the lines of a source's file are a contiguous suffix of the records
\* written to that source, in write order.
C10_FileIsSuffixOfWrites ==
    \A src \in Sources :
        \E n \in 0..Len(written[src]) :
            files[src].content = FileText(LastN(written[src], n))

C10_Witness ==
    \E src \in Sources :
        /\ last.op = "write" /\ last.src = src /\ last.rotated
        /\ Len(written[src]) > KeepLines + 1
        /\ files[src].content = FileText(LastN(written[src], KeepLines + 1))

\* the operations of the collectors and of the channel bridge
HookOps == {"console", "viteError", "rejection", "middleware", "channel"}

\* C7: a failing append while persisting a record never propagates out of
\* the instrumentation: the wrapped console call still invokes the original
\* method, and the other hooks complete without raising.
C7_StorageFailureContained ==
    (last.op \in HookOps /\ last.fault.kind = "appendFail")
    => /\ ~last.raised
       /\ last.op = "console" => last.delegated = 1

\* C9: every stored record has a non-empty message string and a type that
\* is one of console, error, unhandledrejection.
C9_MessageAndTypePresent ==
    \A src \in Sources : \A i \in 1..Len(files[src].content) :
        LET a == files[src].content[i]
        IN a.k = "json" =>
              /\ "message" \in DOMAIN a.v
              /\ a.v["message"] # <<>>
              /\ "type" \in DOMAIN a.v
              /\ a.v["type"] \in Types

\* the other source
Other(src) == CHOOSE s \in Sources : s # src

\* C11: after clear(source) the file of the source is empty, so that
\* read(source, n) returns the empty sequence for every n; the other
\* source's file is unchanged by the clear; and a record written to the
\* cleared file is read back.
C11_ClearEmptiesOneSource ==
    /\ (last.op = "clear" /\ ~last.raised)
          => /\ files[last.src].content = <<>>
             /\ \A n \in Counts : read(files[last.src], n, NoFault).value = <<>>
             /\ files[Other(last.src)] = last.pre[Other(last.src)]
    /\ (last.op = "write" /\ ~last.raised /\ last.pre[last.src].exists
           /\ last.pre[last.src].content = <<>>)
          => /\ read(files[last.src], 1, NoFault).value = last.entry
             /\ written[last.src] = last.entry

C11_Witness ==
    /\ last.op = "clear" /\ ~last.raised
    /\ Len(last.pre[last.src].content) >= 4
    /\ files[last.src] = [exists |-> TRUE, content |-> <<>>]
    /\ Len(files[Other(last.src)].content) >= 2

\* a record is written to a file that a clear emptied, and read back
C11_WitnessWriteAfterClear ==
    /\ last.op = "write" /\ ~last.raised
    /\ last.pre[last.src] = [exists |-> TRUE, content |-> <<>>]
    /\ read(files[last.src], 1, NoFault).value = last.entry

\* the arguments of a tool call are outside the input schema
InvalidArguments(args) ==
    \/ "entries" \in DOMAIN args /\ args.entries \notin MinEntries..MaxEntries
    \/ "level" \in DOMAIN args /\ args.level \notin Levels

\* the count a tool call asks for
RequestedCount(args) ==
    IF "entries" \in DOMAIN args THEN args.entries ELSE DefaultEntries

\* the levels of the records rs, a record without level counting as "none"
LevelsOf(rs) ==
    [i \in 1..Len(rs) |-> IF "level" \in DOMAIN rs[i] THEN rs[i]["level"] ELSE "none"]

\* C12: query(source, count, level) returns records newest first, at most
\* count of them, every one having the requested level (a record without
\* level is never returned under a level filter); without a level the
\* result is that of read(source, count).  After records with the levels
\* info, error, warn were written in that order, a query for more records
\* than are stored returns warn, error, info, and the same query with level
\* error returns exactly the error record.
C12_QueryNewestFirstFiltered ==
    (last.op = "query" /\ last.fault.kind = "none" /\ ~InvalidArguments(last.args))
    => LET f == last.pre[last.src]
           count == RequestedCount(last.args)
           window == ExpectedRead(f.content, count)
       IN /\ ~last.reply.isError
          /\ Len(last.ret) <= count
          /\ "level" \in DOMAIN last.args =>
                /\ \A i \in 1..Len(last.ret) :
                      /\ "level" \in DOMAIN last.ret[i]
                      /\ last.ret[i]["level"] = last.args.level
                /\ last.ret = SelectSeq(window,
                      LAMBDA r : "level" \in DOMAIN r /\ r["level"] = last.args.level)
          /\ "level" \notin DOMAIN last.args =>
                /\ last.ret = window
                /\ last.ret = read(f, count, NoFault).value
          /\ (/\ f.content = FileText(written[last.src])
              /\ LevelsOf(written[last.src]) = <<"info", "error", "warn">>)
             => /\ last.args = [entries |-> MaxEntries] =>
                      last.ret = <<written[last.src][3], written[last.src][2],
                                   written[last.src][1]>>
                /\ last.args = [entries |-> MaxEntries, level |-> "error"] =>
                      last.ret = <<written[last.src][2]>>

C12_Witness ==
    /\ last.op = "query" /\ last.fault.kind = "none"
    /\ last.args = [entries |-> MaxEntries, level |-> "error"]
    /\ files[last.src].content = FileText(written[last.src])
    /\ LevelsOf(written[last.src]) = <<"info", "error", "warn">>
    /\ last.ret = <<written[last.src][2]>>

\* the example without a level: warn, error, info
C12_WitnessNoLevel ==
    /\ last.op = "query" /\ last.fault.kind = "none"
    /\ last.args = [entries |-> MaxEntries]
    /\ LevelsOf(written[last.src]) = <<"info", "error", "warn">>
    /\ LevelsOf(last.ret) = <<"warn", "error", "info">>

\* a record without level is in the window of a level query and left out
C12_WitnessNoLevelRecord ==
    /\ last.op = "query" /\ last.fault.kind = "none"
    /\ last.args = [entries |-> MaxEntries, level |-> "error"]
    /\ LevelsOf(written[last.src]) = <<"error", "none">>
    /\ files[last.src].content = FileText(written[last.src])
    /\ last.ret = <<written[last.src][1]>>

\* C13: a query on an absent or empty store returns the empty-result
\* message, which is not flagged as an error; a query whose count is
\* outside [1, 100] or whose level is not one of the five severities returns
\* a validation error flagged as an error and reads nothing from the store;
\* the two replies differ.
C13_EmptyResultAndValidationError ==
    last.op = "query" =>
        LET f == last.pre[last.src]
        IN /\ (/\ ~InvalidArguments(last.args)
               /\ last.fault.kind = "none"
               /\ (~f.exists \/ f.content = <<>>))
              => /\ ~last.reply.isError
                 /\ last.reply.text = "No logs found. Make sure:"
                 /\ last.reply.readStore
           /\ InvalidArguments(last.args)
              => /\ last.reply.isError
                 /\ last.reply.text = "Invalid arguments"
                 /\ ~last.reply.readStore
           /\ last.reply.text = "No logs found. Make sure:" => ~last.reply.isError
           /\ last.reply.text = "Invalid arguments" => last.reply.isError
           /\ ~last.raised

C13_Witness ==
    /\ last.op = "query"
    /\ last.args = [entries |-> 0]
    /\ ~last.pre[last.src].exists
    /\ last.reply.isError /\ ~last.reply.readStore

\* the empty result on a store that exists and is empty
C13_WitnessEmptyStore ==
    /\ last.op = "query"
    /\ last.args = [entries |-> MinEntries]
    /\ last.pre[last.src] = [exists |-> TRUE, content |-> <<>>]
    /\ ~last.reply.isError /\ last.reply.text = "No logs found. Make sure:"

\* C14: when the log file exists but cannot be read during a query, the
\* query replies with a tool-level error message flagged as an error, not
\* with the empty result, and does not raise.
C14_ReadFailureReportedAsError ==
    (last.op = "query" /\ last.fault.kind = "read" /\ ~InvalidArguments(last.args))
    => /\ last.reply.isError
       /\ last.reply.text = "Error reading logs"
       /\ ~last.raised

\* the number of instrumentation imports in a piece of code
CountImports(code) ==
    Cardinality({i \in 1..Len(code) : OccursAt(code, ImportLine, i)})

\* the modules of ModuleIds that are entry points under options o: those
\* an entry pattern matches, the explicit entry and the module the user's
\* pattern matches, without the virtual and the node_modules modules
EntryModules(o) ==
    { <<"/", "p", "/", "src", "/", "main", ".", "tsx">>,
      <<"/", "p", "/", "my", "src", "/", "App", ".", "jsx">>,
      <<"/", "p", "/", ".", "nuxt", "/", "entry", ".", "mjs">> }
    \cup (IF o.clientEntries = {} THEN {}
          ELSE {<<"/", "p", "/", "app", "/", "boot", ".", "ts">>})
    \cup (IF o.clientEntryPatterns = {} THEN {}
          ELSE {<<"/", "p", "/", "lib", "/", "start", ".", "ts">>})

\* C15: for a module whose id matches an entry pattern, transform yields
\* code with exactly one instrumentation import, also when it is applied
\* again to the same module and to code that already begins with the import.
C15_ExactlyOneImport ==
    (/\ last.op = "transform"
     /\ ~opts.disableBrowserCapture
     /\ last.id \in EntryModules(opts))
    => CountImports(last.reply.code) = 1

\* the same for code that does not hold the import yet
C15_OneImportOnLoadedCode ==
    (/\ last.op = "transform"
     /\ ~opts.disableBrowserCapture
     /\ last.id \in EntryModules(opts)
     /\ CountImports(last.input) = 0)
    => /\ CountImports(last.reply.code) = 1
       /\ StartsWith(last.reply.code, ImportLine)

C15_WitnessLoadedAgain ==
    /\ last.op = "transform" /\ last.pass = 2
    /\ last.id \in EntryModules(opts) /\ ~opts.disableBrowserCapture
    /\ last.input = SourceCode
    /\ CountImports(modules.code[last.id]) = 1

\* C16: transform prepends the instrumentation import to a module if and
\* only if browser capture is enabled, the id does not contain node_modules
\* and does not start with the virtual-module marker, and the id equals a
\* resolved explicit entry or matches an entry pattern; the code of every
\* other module is left unchanged.
C16_InjectsIffEntry ==
    last.op = "transform" =>
        LET expected == ~opts.disableBrowserCapture /\ last.id \in EntryModules(opts)
        IN /\ last.reply.result <=> expected
           /\ expected => last.reply.code = ImportLine \o last.input
           /\ ~expected => last.reply.code = last.input
           /\ modules.code[last.id] = last.reply.code
           /\ last.pass = 1 =>
                 \A id \in ModuleIds \ {last.id} : modules.code[id] = SourceCode

C16_Witness ==
    /\ last.op = "transform"
    /\ last.id = <<"/", "p", "/", "app", "/", "boot", ".", "ts">>
    /\ opts.clientEntries # {} /\ opts.clientEntryPatterns = {}
    /\ last.reply.result
    /\ modules.code[last.id] = ImportLine \o SourceCode

\* a module under node_modules whose path matches an entry pattern
C16_WitnessSkipped ==
    /\ last.op = "transform"
    /\ Includes(last.id, <<"node_modules">>)
    /\ ~opts.disableBrowserCapture
    /\ modules.code[last.id] = SourceCode

\* the operations of the page that produce events
PageEventOps == {"payload", "browserConsole", "windowError", "windowRejection"}

\* the number of events an operation of the page produced
EventsProduced ==
    (page.forwarded + page.dropped)
       - (last.prePage.forwarded + last.prePage.dropped)

\* C17: however often the payload is executed in a page, the console
\* wrappers and the error and rejection listeners are installed exactly
\* once: after the first run the initialized flag stays set, a later run
\* changes nothing, and a console call is forwarded as one event, not more.
C17_PayloadInstallsOnce ==
    /\ page.initialized <=> page.runs >= 1
    /\ page.patches = (IF page.initialized THEN 1 ELSE 0)
    /\ page.errorListeners = page.patches
    /\ page.rejectionListeners = page.patches
    /\ (last.op \in PageEventOps \cup {"channelUp", "channelDown"}
        /\ last.prePage.initialized)
       => page.initialized
    /\ (last.op = "payload" /\ last.prePage.initialized)
       => /\ page = [last.prePage EXCEPT !.runs = @ + 1]
          /\ files = last.pre
    /\ (last.op = "browserConsole" /\ last.prePage.initialized)
       => /\ EventsProduced <= 1
          /\ ~last.raised => EventsProduced = 1
          /\ (~last.raised /\ last.prePage.hot)
                => Len(page.inflight) = Len(last.prePage.inflight) + 1

C17_Witness ==
    /\ last.op = "payload"
    /\ last.prePage.initialized
    /\ page.runs = 2
    /\ page.patches = 1 /\ page.errorListeners = 1 /\ page.rejectionListeners = 1

\* a console call after the payload ran twice is forwarded once
C17_WitnessOneEvent ==
    /\ last.op = "browserConsole" /\ ~last.raised
    /\ last.prePage.runs = 2 /\ last.prePage.hot
    /\ Len(page.inflight) = Len(last.prePage.inflight) + 1

\* C18: for every call of a patched console method of the page, the event
\* is forwarded first and the original method is then invoked exactly once,
\* whether or not the channel is available.
C18_ForwardThenOriginal ==
    (last.op = "browserConsole" /\ last.prePage.patches = 1)
    => /\ ~last.raised
       /\ last.steps = <<"sendToServer", "original">>

\* the same for the calls whose arguments can be turned into strings
C18_SerializableForwardThenOriginal ==
    (/\ last.op = "browserConsole" /\ last.prePage.patches = 1
     /\ \A i \in 1..Len(last.args) : last.args[i] # "bare")
    => /\ ~last.raised
       /\ last.steps = <<"sendToServer", "original">>

C18_WitnessChannelDown ==
    /\ last.op = "browserConsole" /\ last.prePage.patches = 1
    /\ ~last.prePage.hot
    /\ last.steps = <<"sendToServer", "original">>

\* C19: an event produced while the channel is unavailable is dropped: it
\* is not sent, not stored in browser.log, and not sent or stored later,
\* when the channel is available again: every stored record and every
\* message in flight is an event that was produced with the channel
\* available.
C19_DroppedWhenChannelUnavailable ==
    /\ (last.op \in PageEventOps /\ ~last.prePage.hot)
       => /\ page.inflight = last.prePage.inflight
          /\ page.forwarded = last.prePage.forwarded
          /\ files = last.pre
    /\ last.op \in {"channelUp", "channelDown"}
       => /\ page.inflight = last.prePage.inflight
          /\ files = last.pre
    /\ Len(written["browser"]) + Len(page.inflight) = page.forwarded
    /\ LineCount(files["browser"].content) = Len(written["browser"])

C19_Witness ==
    /\ last.op = "channel"
    /\ page.dropped >= 1
    /\ page.hot
    /\ page.forwarded = 1
    /\ page.inflight = <<>>
    /\ LineCount(files["browser"].content) = 1

\* C20: while server capture is installed, every call of one of the five
\* console methods appends exactly one record of type console, with level
\* equal to the method name, to server.log, and invokes the original
\* implementation exactly once after that.
C20_ConsoleRecordThenOriginal ==
    (last.op = "console" /\ last.count = 1)
    => /\ ~last.raised
       /\ last.delegated = 1
       /\ Len(last.entry) = 1
       /\ last.entry[1]["type"] = "console"
       /\ last.entry[1]["level"] = last.method
       /\ files["server"].content =
             last.pre["server"].content \o FileText(last.entry)
       /\ files["browser"] = last.pre["browser"]

\* the same for the calls whose entry is built and whose append succeeds
C20_WithoutFailure ==
    (/\ last.op = "console" /\ last.count = 1
     /\ last.fault.kind = "none" /\ last.entry # <<>>)
    => /\ ~last.raised
       /\ last.delegated = 1
       /\ last.entry[1]["type"] = "console"
       /\ last.entry[1]["level"] = last.method
       /\ files["server"].content =
             last.pre["server"].content \o FileText(last.entry)
       /\ files["browser"] = last.pre["browser"]

C20_WitnessWithoutFailure ==
    /\ last.op = "console" /\ last.count = 1 /\ last.fault.kind = "none"
    /\ last.method = "warn" /\ last.delegated = 1
    /\ LineCount(last.pre["server"].content) = 1
    /\ LineCount(files["server"].content) = 2

C22_MiddlewarePersistsThenNext ==
    last.op = "middleware"
    => /\ ~last.raised
       /\ last.delegated = 1
       /\ files["browser"] = last.pre["browser"]
       /\ last.method = "null" => files = last.pre
       /\ last.method # "null"
          => /\ Len(last.entry) = 1
             /\ last.entry[1]["type"] = "error"
             /\ files["server"].content =
                   last.pre["server"].content \o FileText(last.entry)

\* the same for the requests during which the append succeeds
C22_WithoutFailure ==
    (last.op = "middleware" /\ last.fault.kind = "none")
    => /\ ~last.raised
       /\ last.delegated = 1
       /\ files["browser"] = last.pre["browser"]
       /\ last.method = "null" => files = last.pre
       /\ last.method # "null"
          => /\ last.entry[1]["type"] = "error"
             /\ files["server"].content =
                   last.pre["server"].content \o FileText(last.entry)

C22_WitnessWithoutFailure ==
    /\ last.op = "middleware" /\ last.fault.kind = "none"
    /\ last.method = "error" /\ last.delegated = 1
    /\ hooks.configured = 2
    /\ LineCount(last.pre["server"].content) = 1
    /\ LineCount(files["server"].content) = 2

\* the fields the channel handler copies from a payload
RecognizedFields ==
    {"type", "level", "message", "args", "stack", "filename", "lineno", "colno"}

\* C23: every payload received on the channel yields exactly one record in
\* browser.log and none in server.log; the record's timestamp is the time of
\* arrival at the bridge, also when the payload carries a timestamp of its
\* own, and no payload field outside the recognized ones is persisted.
C23_PayloadToBrowserLog ==
    (last.op = "channel" /\ last.fault.kind = "none")
    => /\ Len(last.ret) = 1
       /\ files["browser"].content =
             last.pre["browser"].content \o FileText(last.ret)
       /\ files["server"] = last.pre["server"]
       /\ last.ret[1]["timestamp"] = clock - 1
       /\ DOMAIN last.ret[1] \subseteq RecognizedFields \cup {"timestamp"}

C23_Witness ==
    /\ last.op = "channel" /\ last.fault.kind = "none"
    /\ "type" \in DOMAIN last.ret[1]
    /\ last.ret[1]["type"] = "bogus"
    /\ last.ret[1]["timestamp"] = 1
    /\ LineCount(files["browser"].content) = 2
    /\ LineCount(files["server"].content) = 0

\* C24: a channel payload that lacks type or message is not rejected: the
\* handler does not raise and writes exactly one record for it, in which the
\* missing fields have a default value.
C24_MalformedPayloadStoredWithDefaults ==
    last.op = "channel"
    => /\ ~last.raised
       /\ Len(last.ret) = 1
       /\ {"type", "message"} \subseteq DOMAIN last.ret[1]
       /\ files["browser"].content =
             last.pre["browser"].content \o FileText(last.ret)

\* what the handler does with such a payload when the append succeeds: one
\* record, in which the missing fields are left out
C24_StoredWithoutTheMissingFields ==
    (/\ last.op = "channel" /\ last.fault.kind = "none")
    => /\ ~last.raised
       /\ Len(last.ret) = 1
       /\ LineCount(files["browser"].content) =
             LineCount(last.pre["browser"].content) + 1
       /\ \E data \in Payloads :
             /\ last.ret[1] = JSONstringify(
                                 WithTimestamp(BridgeEntry(data), clock - 1)).v
             /\ \A k \in {"type", "message"} :
                   k \in DOMAIN last.ret[1] <=> k \in DOMAIN data

C24_WitnessMissingFields ==
    /\ last.op = "channel" /\ last.fault.kind = "none"
    /\ ~last.raised
    /\ DOMAIN last.ret[1] = {"timestamp", "level"}
    /\ LineCount(files["browser"].content) = 1

\* the console calls with an argument that refers to itself, and the methods
\* they are made with (no other call is made with these methods)
CircularCalls ==
    {call \in ConsoleCalls :
        \E i \in 1..Len(call[2]) : call[2][i] \in {"circ", "bare"}}

CircularMethods == {call[1] : call \in CircularCalls}

\* C25: capturing a console call one of whose arguments is an object that
\* refers to itself does not raise, and the message of the record written
\* for it contains the placeholder "[unserializable]" for that argument.
C25_CircularArgumentPlaceholder ==
    (/\ last.op = "console" /\ last.count = 1
     /\ last.method \in CircularMethods /\ last.fault.kind = "none")
    => /\ ~last.raised
       /\ Len(last.ret) = 1
       /\ Includes(last.ret[1]["message"], <<"[unserializable]">>)

\* what the wrapper does with such a call: it raises when String(arg) throws
\* as well, and otherwise the message holds the default string form of the
\* argument and no placeholder
C25_DefaultStringFormOrRaise ==
    (/\ last.op = "console" /\ last.count = 1
     /\ last.method \in CircularMethods /\ last.fault.kind = "none")
    => \/ /\ last.raised
          /\ files = last.pre
          /\ last.delegated = 0
       \/ /\ ~last.raised
          /\ Len(last.ret) = 1
          /\ Includes(last.ret[1]["message"], <<"[object Object]">>)
          /\ ~Includes(last.ret[1]["message"], <<"[unserializable]">>)

C25_WitnessCircular ==
    /\ last.op = "console" /\ last.count = 1 /\ last.fault.kind = "none"
    /\ last.method = "error"
    /\ ~last.raised
    /\ LineCount(files["server"].content) = 1

C25_WitnessRaised ==
    /\ last.op = "console" /\ last.count = 1
    /\ last.method = "debug"
    /\ last.raised
    /\ hooks.consolePatched

\* C26: getLogWriter returns the identical instance for consecutive requests
\* with the same directory; a request for another directory replaces the
\* cached instance, so that at most one instance is cached, the one of the
\* most recently requested directory.
C26_SingletonPerDirectory ==
    last.op = "getLogWriter"
    => /\ last.returned = store.writerInstance
       /\ store.writerInstance.logDir = last.logDir
       /\ (last.prev # NoInstance /\ last.prev.logDir = last.logDir)
          => last.returned = last.prev
       /\ (last.prev = NoInstance \/ last.prev.logDir # last.logDir)
          => /\ last.returned.id = store.created
             /\ last.returned.id > last.prev.id

C26_Witness ==
    /\ last.op = "getLogWriter"
    /\ store.created = 2
    /\ store.requests = 4
    /\ last.prev.logDir = last.logDir
    /\ last.returned = last.prev
    /\ last.returned.id = 2

\* the records in the file of src
StoredRecords(src) ==
    {files[src].content[i].v :
        i \in {j \in 1..Len(files[src].content) :
                  files[src].content[j].k = "json"}}

\* the stored records that have the type t
RecordsOfType(src, t) ==
    {r \in StoredRecords(src) : "type" \in DOMAIN r /\ r["type"] = t}

\* C27: in every reachable state of the store, every record of type console
\* carries a level that is one of log, info, warn, error, debug, and every
\* record of type error or unhandledrejection carries no level.
C27_LevelByType ==
    \A src \in Sources :
        /\ \A r \in RecordsOfType(src, "console") :
              "level" \in DOMAIN r /\ r["level"] \in Levels
        /\ \A r \in RecordsOfType(src, "error") \cup
                      RecordsOfType(src, "unhandledrejection") :
              "level" \notin DOMAIN r

\* what the server-side hooks write: every record of server.log carries a
\* level, the console method for a console record and error for the others
C27_ServerRecordsCarryLevel ==
    /\ \A r \in StoredRecords("server") :
          "type" \in DOMAIN r /\ "level" \in DOMAIN r
    /\ \A r \in RecordsOfType("server", "console") : r["level"] \in Levels
    /\ \A r \in RecordsOfType("server", "error") \cup
                  RecordsOfType("server", "unhandledrejection") :
          r["level"] = "error"

C27_WitnessServerErrorWithLevel ==
    /\ RecordsOfType("server", "console") # {}
    /\ \E r \in RecordsOfType("server", "unhandledrejection") :
          r["level"] = "error"

\* C28: with browser capture disabled the virtual module is an inert stub,
\* transform injects the import into no module and no channel listener is
\* installed, so that no module load and no channel message makes the
\* plugin write to browser.log; with server capture disabled the console
\* methods are never wrapped and the plugin never writes to server.log.
C28_DisabledCaptureWritesNothing ==
    /\ opts.disableBrowserCapture
       => /\ files["browser"] = NoFile
          /\ hooks.wsListeners = 0
          /\ \A id \in ModuleIds : modules.code[id] = SourceCode
          /\ last.op = "transform" => ~last.reply.result
          /\ (last.op = "load" /\ last.id = RESOLVED_VIRTUAL_MODULE_ID)
             => last.reply.code = InertStub
    /\ opts.disableServerCapture
       => /\ files["server"] = NoFile
          /\ ~hooks.consolePatched
          /\ hooks.console = hooks.originalConsole
          /\ hooks.viteWraps = 0 /\ hooks.rejHandlers = 0
          /\ hooks.middlewares = 0

C28_Witness ==
    /\ opts.disableBrowserCapture /\ ~opts.disableServerCapture
    /\ hooks.configured >= 1
    /\ modules.transforms >= 1
    /\ last.op = "channel"
    /\ LineCount(files["server"].content) >= 1
    /\ files["browser"] = NoFile

C28_WitnessServerDisabled ==
    /\ opts.disableServerCapture /\ ~opts.disableBrowserCapture
    /\ hooks.configured >= 1
    /\ last.op = "console"
    /\ LineCount(files["browser"].content) >= 1
    /\ files["server"] = NoFile

\* the records on the lines of a file in which every line is a record
RecordsOf(content) ==
    LET atoms == SelectSeq(content, LAMBDA a : a.k = "json")
    IN [i \in 1..Len(atoms) |-> atoms[i].v]

\* C29: write rotates the file of the source if and only if the file exists
\* and its size in bytes is strictly greater than the threshold when the call
\* starts; in every other case the file after the write is its previous
\* content followed by the one new record line.
C29_RotatesIffAboveThreshold ==
    last.op = "write"
    => LET pre == last.pre[last.src]
           line == FileText(last.entry)
       IN /\ ~last.raised
          /\ last.rotated <=> (pre.exists /\ Size(pre.content) > MaxFileSize)
          /\ IF pre.exists /\ Size(pre.content) > MaxFileSize
             THEN files[last.src].content =
                     FileText(LastN(RecordsOf(pre.content), KeepLines)) \o line
             ELSE files[last.src].content = pre.content \o line

C29_WitnessAtThreshold ==
    /\ last.op = "write"
    /\ Size(last.pre[last.src].content) = MaxFileSize
    /\ LineCount(last.pre[last.src].content) = KeepLines + 1
    /\ LineCount(files[last.src].content) = KeepLines + 2

C29_WitnessRotated ==
    /\ last.op = "write"
    /\ Size(last.pre[last.src].content) = MaxFileSize + 1
    /\ LineCount(last.pre[last.src].content) = KeepLines + 1
    /\ LineCount(files[last.src].content) = KeepLines + 1

\* the records of rs that carry the level
WithLevel(rs, level) ==
    SelectSeq(rs, LAMBDA r : "level" \in DOMAIN r /\ r["level"] = level)

\* C30: the level filter of a query is applied after the truncation to
\* count: query(source, count, level) returns exactly the records with that
\* level among the count most recent lines, so that a matching record older
\* than this window is not returned and the reply can be the empty-result
\* message although the file holds matching records.
C30_FilterAfterTruncation ==
    (/\ last.op = "query" /\ last.fault.kind = "none"
     /\ ~InvalidArguments(last.args) /\ "level" \in DOMAIN last.args)
    => LET stored == RecordsOf(last.pre[last.src].content)
           count == RequestedCount(last.args)
           window == LastN(stored, count)
           older == SubSeq(stored, 1, Len(stored) - Len(window))
       IN /\ last.ret = Reverse(WithLevel(window, last.args.level))
          /\ \A i \in 1..Len(older) : \A j \in 1..Len(last.ret) :
                last.ret[j] # older[i]
          /\ WithLevel(window, last.args.level) = <<>>
             => /\ ~last.reply.isError
                /\ last.reply.text = "No logs found. Make sure:"

C30_Witness ==
    /\ last.op = "query" /\ last.fault.kind = "none"
    /\ last.args = [entries |-> MinEntries, level |-> "error"]
    /\ LET stored == RecordsOf(last.pre[last.src].content)
       IN /\ Len(stored) = 3
          /\ WithLevel(SubSeq(stored, 1, 2), "error") # <<>>
          /\ WithLevel(stored, "error") = WithLevel(SubSeq(stored, 1, 2), "error")
    /\ last.ret = <<>>
    /\ last.reply.text = "No logs found. Make sure:"

\* C31: write(source, r), with the rotation it may trigger, changes only the
\* file of that source: the file of the other source is left as it was, so
\* that the two files grow and rotate independently.
C31_WriteLeavesOtherSource ==
    last.op = "write"
    => /\ files[Other(last.src)] = last.pre[Other(last.src)]
       /\ LET pre == last.pre[last.src].content
              post == files[last.src].content
          IN /\ Len(post) >= 2
             /\ SubSeq(post, Len(post) - 1, Len(post)) = FileText(last.entry)
             /\ ~last.rotated => post = pre \o FileText(last.entry)

C31_Witness ==
    /\ last.op = "write"
    /\ last.rotated
    /\ Size(last.pre[last.src].content) > MaxFileSize
    /\ Size(files[Other(last.src)].content) > MaxFileSize
    /\ LineCount(files[Other(last.src)].content) = KeepLines + 1
    /\ LineCount(files[Other(last.src)].content) = KeepLines + 1

\* the console call made with a method (each method is used by one call)
CallOf(method) == CHOOSE call \in ConsoleCalls : call[1] = method

\* the text a record is to hold for an argument in message and in args
MessageTextOf(arg) ==
    CASE arg = "str" -> <<"a">>
      [] arg = "empty" -> <<>>
      [] arg = "obj" -> <<"{}">>
      [] arg = "circ" -> <<"[object Object]">>
      [] arg = "err" -> <<"Error: e", "at f">>

ArgsTextOf(arg) ==
    CASE arg = "str" -> <<"a">>
      [] arg = "empty" -> <<>>
      [] arg = "obj" -> <<"[object Object]">>
      [] arg = "circ" -> <<"[object Object]">>
      [] arg = "err" -> <<"Error: e">>

\* the texts ts with one space between each two of them
RECURSIVE Spaced(_)
Spaced(ts) ==
    IF Len(ts) = 0 THEN <<>>
    ELSE IF Len(ts) = 1 THEN ts[1]
    ELSE Spaced(SubSeq(ts, 1, Len(ts) - 1)) \o <<" ">> \o ts[Len(ts)]

\* C32: for a console call with the arguments a1..an the message of the
\* record is the serializations of the arguments joined by single spaces in
\* the order of the arguments, and args is the sequence of exactly n
\* stringified arguments in the same order.
C32_MessageJoinsArgs ==
    (last.op = "console" /\ last.count = 1 /\ ~last.raised
     /\ last.fault.kind = "none")
    => LET args == CallOf(last.method)[2]
           n == Len(args)
           record == last.ret[1]
       IN /\ Len(last.ret) = 1
          /\ record["message"] = Spaced([i \in 1..n |-> MessageTextOf(args[i])])
          /\ Len(record["args"]) = n
          /\ \A i \in 1..n : record["args"][i] = ArgsTextOf(args[i])
          /\ \A call \in ConsoleCalls : call[1] = last.method => call[2] = args

C32_Witness ==
    /\ last.op = "console" /\ last.count = 1 /\ ~last.raised
    /\ last.fault.kind = "none"
    /\ last.method = "warn"
    /\ Len(last.ret) = 1
    /\ last.ret[1]["message"] = <<" ", "{}", " ", "a">>
    /\ Len(last.ret[1]["args"]) = 3

\* the elements of a sequence
Range(s) == {s[i] : i \in 1..Len(s)}

\* the records whose JSON text a write call has put into the file of the
\* interleaved calls: those of the completed appends, and the one of an
\* append that has not written its newline yet
TextWritten ==
    Range(written[RaceSource]) \cup
    {procs[w].line[1].v : w \in {v \in Writers : procs[v].pc = "appendRest"}}

\* C33: a query read that interleaves at the granularity of the file
\* operations with a write of the dev-server process (also between the
\* truncation and the completion of a rotation rewrite, or in the middle of
\* an append) never raises and returns only records that a write call wrote
\* in full, newest first and without duplicates; a partially written last
\* line is dropped.
C33_ReadDuringWrite ==
    last.op = "readLogsDone"
    => /\ ~last.raised
       /\ Len(last.ret) <= last.count
       /\ \A i \in 1..Len(last.ret) : last.ret[i] \in TextWritten
       /\ \A i, j \in 1..Len(last.ret) :
             i < j => last.ret[i]["timestamp"] > last.ret[j]["timestamp"]
       /\ last.ret = ExpectedRead(last.pre[RaceSource].content, last.count)

C33_Witness ==
    /\ last.op = "readLogsDone"
    /\ procs.w1.pc = "rewriteRest"
    /\ LET content == last.pre[RaceSource].content
       IN /\ Len(content) = 3
          /\ content[3] = JUNK
    /\ Len(last.ret) = 1

C33_WitnessMidAppend ==
    /\ last.op = "readLogsDone"
    /\ procs.w1.pc = "appendRest"
    /\ LET content == last.pre[RaceSource].content
       IN content[Len(content)] = JUNK
    /\ Len(last.ret) = 2

C33_WitnessTruncated ==
    /\ last.op = "readLogsDone"
    /\ procs.w1.pc = "rewrite"
    /\ last.pre[RaceSource] = [exists |-> TRUE, content |-> <<>>]
    /\ Len(written[RaceSource]) >= 1
    /\ last.ret = <<>>

\* s is t with some elements left out, the others in the order of t
RECURSIVE IsSubsequence(_, _)
IsSubsequence(s, t) ==
    IF s = <<>> THEN TRUE
    ELSE IF t = <<>> THEN FALSE
    ELSE IF Head(s) = Head(t) THEN IsSubsequence(Tail(s), Tail(t))
    ELSE IsSubsequence(s, Tail(t))

\* no interleaved write call is under way
Quiescent == \A w \in Writers : procs[w].pc = "idle"

\* the records appended so far that the file no longer holds
LostRecords ==
    Range(written[RaceSource]) \
        RecordSet(files[getLogPath(RaceSource)].content)

\* C34: two write calls to one source that interleave at the granularity of
\* the file steps, without locking: no record is duplicated or reordered,
\* and the only records that can be lost (beyond those a rotation trims)
\* are those appended by one call between the other call's rotation read
\* and its rotation rewrite.
C34_InterleavedWrites ==
    Quiescent
    => /\ IsSubsequence(RecordsOf(files[getLogPath(RaceSource)].content),
                        written[RaceSource])
       /\ LostRecords \subseteq (procs.trimmed \cup procs.raced)

\* the part of C34 about duplication and order
C34_NoDuplicateNoReorder ==
    Quiescent
    => IsSubsequence(RecordsOf(files[getLogPath(RaceSource)].content),
                     written[RaceSource])

C34_WitnessLostInWindow ==
    /\ Quiescent
    /\ procs.w1.calls = 1
    /\ procs.w2.calls = 1
    /\ procs.raced # {}
    /\ LostRecords \cap procs.raced # {}
    /\ LostRecords \subseteq (procs.trimmed \cup procs.raced)

C34_WitnessKeptRecordsLost ==
    /\ Quiescent
    /\ procs.w1.calls = 1
    /\ procs.w2.calls = 1
    /\ (LostRecords \ (procs.trimmed \cup procs.raced)) # {}

\* a server-side event that reached at least one installed hook and whose
\* persisting met no failure
ServerEventPersisted ==
    /\ last.op \in {"console", "viteError", "rejection"}
    /\ last.count >= 1
    /\ last.fault = NoFault
    /\ ~last.raised

\* C35: however many times configureServer runs in one process, each server
\* console call, each error report of the build tool and each unhandled
\* rejection is persisted as exactly one record in server.log.
C35_OneRecordPerServerEvent ==
    ServerEventPersisted
    => /\ Len(last.ret) = 1
       /\ RecordsOf(files["server"].content) =
              RecordsOf(last.pre["server"].content) \o last.ret

\* after one configureServer every server-side event is one record
C35_OneRecordAfterOneConfigure ==
    (ServerEventPersisted /\ hooks.configured = 1) => Len(last.ret) = 1

\* a console call is one record whatever the number of configureServer calls
C35_ConsoleCallOneRecord ==
    (ServerEventPersisted /\ last.op = "console") => Len(last.ret) = 1

\* the handlers of the process and of the logger add up: an event after n
\* configureServer calls is n records
C35_OneRecordPerInstalledHandler ==
    (ServerEventPersisted /\ last.op \in {"viteError", "rejection"})
    => Len(last.ret) = hooks.configured

C35_WitnessRejectionTwice ==
    /\ ServerEventPersisted
    /\ last.op = "rejection"
    /\ hooks.configured = 2
    /\ Len(last.ret) = 2

C35_WitnessConsoleAfterTwo ==
    /\ ServerEventPersisted
    /\ last.op = "console"
    /\ hooks.configured = 2
    /\ Len(last.ret) = 1

HasEntry(content, name) ==
    \E i \in 1..Len(content) :
       /\ OccursAt(content, <<name, "/">>, i)
       /\ (i = 1 \/ content[i - 1] = "\n")
       /\ (i + 2 > Len(content) \/ content[i + 2] = "\n")

\* the number of entry lines for name in the text
EntryCount(content, name) ==
    Cardinality({ i \in 1..Len(content) :
                    /\ OccursAt(content, <<name, "/">>, i)
                    /\ (i = 1 \/ content[i - 1] = "\n")
                    /\ (i + 2 > Len(content) \/ content[i + 2] = "\n") })

\* what C37 requires of a store constructed without a failing file
\* operation: the entry is there afterwards, once; the file changes only
\* to gain the entry; a construction after an earlier one for the same
\* directory changes nothing
GitignoreEnsured ==
    LET dir == pathDirname(last.logDir)
        name == pathBasename(last.logDir)
        before == last.preGit[dir]
        after == gitignore[dir]
    IN /\ after.exists
       /\ EntryCount(after.content, name) = 1
       /\ after # before => ~HasEntry(before.content, name)
       /\ last.logDir \in last.made => after = before
       /\ \A d \in GitDirs \ {dir} : gitignore[d] = last.preGit[d]

\* C37: creating the store for the same directory any number of times
\* ensures that the sibling .gitignore contains an entry for the storage
\* directory and adds it at most once: the first creation creates the file
\* or appends the entry, every later creation leaves .gitignore unchanged.
C37_GitignoreEntryEnsuredOnce ==
    (last.op = "construct" /\ last.fault = NoFault) => GitignoreEnsured

\* the name of the directory occurs in the text outside an entry line
NameOccursElsewhere(content, name) ==
    Includes(content, <<name>>) /\ ~HasEntry(content, name)

\* C37 for a .gitignore in which the name of the directory occurs in an
\* entry line or not at all
C37_EnsuredUnlessNameOccurs ==
    ( /\ last.op = "construct"
      /\ last.fault = NoFault
      /\ ~NameOccursElsewhere(last.preGit[pathDirname(last.logDir)].content,
                              pathBasename(last.logDir)) )
    => GitignoreEnsured

\* a construction never adds a second entry and never changes the file
\* after an earlier construction for the same directory
C37_AtMostOnce ==
    last.op = "construct"
    => LET dir == pathDirname(last.logDir)
           name == pathBasename(last.logDir)
       IN /\ EntryCount(gitignore[dir].content, name) <= 1
          /\ last.logDir \in last.made => gitignore[dir] = last.preGit[dir]

C37_WitnessNoEntry ==
    /\ last.op = "construct"
    /\ last.fault = NoFault
    /\ last.logDir \in last.made
    /\ ~HasEntry(gitignore[Root].content, pathBasename(last.logDir))

C37_WitnessAppendedThenUnchanged ==
    /\ last.op = "construct"
    /\ last.fault = NoFault
    /\ last.logDir \in last.made
    /\ last.preGit = gitignore
    /\ HasEntry(gitignore[Root].content, pathBasename(last.logDir))
    /\ OccursAt(gitignore[Root].content, <<"node_modules", "\n">>, 1)

\* the number of times id occurs in the sequence s
Occurrences(s, id) == Cardinality({i \in 1..Len(s) : s[i] = id})

\* the config file marks the tool id as enabled
MarkedEnabled(file, id) ==
    /\ file.kind = "config"
    /\ id \in DOMAIN file.tools
    /\ file.tools[id] = [enabled |-> TRUE]

C38_WitnessAbsentFromConfig ==
    /\ last.op = "createServer"
    /\ last.file.kind = "config"
    /\ DOMAIN last.file.tools = {"browser-logs"}
    /\ last.ret = <<"browser-logs">>

====
